---------------------------- MODULE Spec2Model ----------------------------
(***************************************************************************)
(* Model of the candidate-record pipeline of src/web/src/App.jsx (the      *)
(* first App component of the file, lines 1-835): header canonicalization, *)
(* cleanPhone, normalizeUrlMaybe, generateMessage, encodeForWhatsApp and   *)
(* the `processed` classification loop with its search filter; and of the  *)
(* operator's column mapping of the second App component (lines 838-1557). *)
(*                                                                         *)
(* A JavaScript string is modelled as a sequence of one-character strings, *)
(* so that slicing, stripping, replacing and percent-encoding are computed *)
(* character by character as the code computes them.                       *)
(***************************************************************************)
EXTENDS Integers, Sequences, FiniteSets, TLC

VARIABLES
  rows,               \* useState rows: the canonical rows last stored by setRows
  countryCode,        \* useState countryCode
  template,           \* useState template
  dedupeByPhone,      \* useState dedupeByPhone
  autoDetectCountry,  \* useState autoDetectCountry
  search,             \* useState search
  buckets,            \* locals out, missing, invalid of the processed memo when its loop ends
  processed,          \* value returned by the processed memo (after filterByQuery)
  errors,             \* useState errors: the messages shown above the table
  columnMapping,      \* useState columnMapping of the second App component
  isLoading,          \* useState isLoading
  pending,            \* timers and reader callbacks that are set and have not fired yet
  requested,          \* history: the rows of the latest load that delivered rows, or of Clear
  openIndex,          \* useState openIndex of the second App component
  batchSize,          \* useState batchSize of the second App component
  fn                  \* one call of a pure helper: its arguments and its result

vars == <<rows, countryCode, template, dedupeByPhone, autoDetectCountry, search,
          buckets, processed, errors, columnMapping,
          isLoading, pending, requested, openIndex, batchSize, fn>>

appVars == <<rows, countryCode, template, dedupeByPhone, autoDetectCountry, search,
             buckets, processed, errors, columnMapping,
             isLoading, pending, requested, openIndex, batchSize>>

\* The loading flag with the callbacks in flight, and the batch counter.
loaderVars == <<isLoading, pending>>

batchVars == <<openIndex, batchSize>>

----------------------------------------------------------------------------
(* Strings as sequences of characters *)

\* All sequences over S of length at most n.
SeqsUpTo(S, n) == UNION {[1..k -> S] : k \in 0..n}

DigitChars == {"0", "1", "2", "3", "4", "5", "6", "7", "8", "9"}

\* The regular expression class \D is the complement of this test.
IsDigit(c) == c \in DigitChars

\* String(x).replace(/\D+/g, '')
StripNonDigits(s) == SelectSeq(s, IsDigit)

\* A plausible slip: the first n characters instead of the last n.
SliceFirst(s, n) == IF Len(s) <= n THEN s ELSE SubSeq(s, 1, n)

\* s.slice(-n): the last n characters, or all of s when it is shorter.
SliceLast(s, n) == IF Len(s) <= n THEN s ELSE SubSeq(s, Len(s) - n + 1, Len(s))

\* s.slice(0, n) for 0 <= n <= Len(s)
SlicePrefix(s, n) == SubSeq(s, 1, n)

----------------------------------------------------------------------------
(* cleanPhone *)

\* The fallback country code '91' of cleanPhone.
DefaultCountryCode == <<"9", "1">>

\* A plausible slip: the configured code is never read.
AlwaysDefaultCountryCode(cc) == DefaultCountryCode

\* String(countryCode || '').replace(/\D+/g, '') || '91'
EffectiveCountryCode(cc) ==
  LET stripped == StripNonDigits(cc)
  IN  IF stripped = <<>> THEN DefaultCountryCode ELSE stripped

\* A plausible slip: the autoDetectCountry branch is left out.
cleanPhoneNoDetect(raw, cc, autoDetect) ==
  IF raw = <<>> THEN <<>>
  ELSE
    LET digits == StripNonDigits(raw)
        last10 == SliceLast(digits, 10)
    IN  IF last10 = <<>> THEN <<>>
        ELSE EffectiveCountryCode(cc) \o last10

cleanPhone(raw, cc, autoDetect) ==
  IF raw = <<>> THEN <<>>                                  \* if (!raw) return ''
  ELSE
    LET digits == StripNonDigits(raw)
        last10 == SliceLast(digits, 10)
        detected == IF Len(digits) > 10
                    THEN SlicePrefix(digits, Len(digits) - 10) ELSE <<>>
    IN  IF last10 = <<>> THEN <<>>                         \* if (!last10) return ''
        ELSE IF autoDetect /\ Len(digits) > 10 /\ detected # <<>>
             THEN detected \o last10
             ELSE EffectiveCountryCode(cc) \o last10

----------------------------------------------------------------------------
(* String.prototype.replaceAll / replace with a /g regular expression of     *)
(* literal characters: matches are found left to right without overlap, and  *)
(* the replacement string is expanded by GetSubstitution ($$, $&, $`, $').   *)

\* The character U+0060 (grave accent), which a TLA+ string cannot hold: it is
\* written as this one element wherever it occurs in a modelled string.
GraveAccent == "U+0060"

\* GetSubstitution(matched, str, position, no captures, replacement)
RECURSIVE GetSubstitution(_, _, _, _)
GetSubstitution(rep, matched, before, after) ==
  IF rep = <<>> THEN <<>>
  ELSE IF rep[1] = "$" /\ Len(rep) >= 2 /\ rep[2] \in {"$", "&", GraveAccent, "'"}
       THEN (CASE rep[2] = "$" -> <<"$">>
               [] rep[2] = "&" -> matched
               [] rep[2] = GraveAccent -> before
               [] rep[2] = "'" -> after)
            \o GetSubstitution(SubSeq(rep, 3, Len(rep)), matched, before, after)
       ELSE <<rep[1]>> \o GetSubstitution(Tail(rep), matched, before, after)

\* The part of the result produced from position i of str onwards.
RECURSIVE ReplaceFrom(_, _, _, _)
ReplaceFrom(str, i, pat, rep) ==
  IF i > Len(str) THEN <<>>
  ELSE IF i + Len(pat) - 1 <= Len(str) /\ SubSeq(str, i, i + Len(pat) - 1) = pat
       THEN GetSubstitution(rep, pat, SubSeq(str, 1, i - 1),
                            SubSeq(str, i + Len(pat), Len(str)))
            \o ReplaceFrom(str, i + Len(pat), pat, rep)
       ELSE <<str[i]>> \o ReplaceFrom(str, i + 1, pat, rep)

\* str.replaceAll(pat, rep) for a non-empty pattern of literal characters
ReplaceAll(str, pat, rep) == ReplaceFrom(str, 1, pat, rep)

----------------------------------------------------------------------------
(* encodeForWhatsApp *)

\* encodeURIComponent leaves A-Z a-z 0-9 - _ . ! ~ * ' ( ) alone and writes
\* every other character as %XX (its UTF-8 bytes in upper-case hexadecimal).
\* The table lists the escaped characters that occur in the model's strings.
PercentCode ==
  (" "  :> <<"%", "2", "0">>) @@ ("\n" :> <<"%", "0", "A">>) @@
  ("\t" :> <<"%", "0", "9">>) @@ ("\\" :> <<"%", "5", "C">>) @@
  ("%"  :> <<"%", "2", "5">>) @@ ("+"  :> <<"%", "2", "B">>) @@
  (","  :> <<"%", "2", "C">>) @@ ("/"  :> <<"%", "2", "F">>) @@
  (":"  :> <<"%", "3", "A">>) @@ ("$"  :> <<"%", "2", "4">>) @@
  ("{"  :> <<"%", "7", "B">>) @@ ("}"  :> <<"%", "7", "D">>)

encodeURIComponentChar(c) ==
  IF c \in DOMAIN PercentCode THEN PercentCode[c] ELSE <<c>>

RECURSIVE encodeURIComponent(_)
encodeURIComponent(text) ==
  IF text = <<>> THEN <<>>
  ELSE encodeURIComponentChar(Head(text)) \o encodeURIComponent(Tail(text))

encodeForWhatsApp(text) ==
  ReplaceAll(ReplaceAll(encodeURIComponent(text),
                        <<"%", "5", "C", "n">>, <<"%", "0", "A">>),
             <<"%", "2", "0">>, <<"%", "2", "0">>)

----------------------------------------------------------------------------
(* normalizeUrlMaybe *)

\* White space of String.prototype.trim and of the class \s, among the
\* characters of the model.
WhitespaceChars == {" ", "\t", "\n"}

IsWhitespace(c) == c \in WhitespaceChars

NotWhitespace(c) == c \notin WhitespaceChars

RECURSIVE TrimStart(_)
TrimStart(s) == IF s # <<>> /\ IsWhitespace(Head(s)) THEN TrimStart(Tail(s)) ELSE s

RECURSIVE TrimEnd(_)
TrimEnd(s) ==
  IF s # <<>> /\ IsWhitespace(s[Len(s)]) THEN TrimEnd(SubSeq(s, 1, Len(s) - 1)) ELSE s

\* s.trim()
Trim(s) == TrimEnd(TrimStart(s))

\* A plausible slip: /\s+/ without the g flag removes only the first run.
RECURSIVE RemoveFirstWhitespaceRun(_)
RemoveFirstWhitespaceRun(s) ==
  IF s = <<>> THEN <<>>
  ELSE IF IsWhitespace(Head(s)) THEN TrimStart(s)
  ELSE <<Head(s)>> \o RemoveFirstWhitespaceRun(Tail(s))

\* s.replace(/\s+/g, '')
RemoveWhitespace(s) == SelectSeq(s, NotWhitespace)

\* toLowerCase / case-insensitive matching, on the letters of the model.
UpperToLower ==
  ("A" :> "a") @@ ("B" :> "b") @@ ("C" :> "c") @@ ("D" :> "d") @@ ("E" :> "e") @@ ("F" :> "f") @@
  ("G" :> "g") @@ ("H" :> "h") @@ ("I" :> "i") @@ ("J" :> "j") @@ ("K" :> "k") @@ ("L" :> "l") @@
  ("M" :> "m") @@ ("N" :> "n") @@ ("O" :> "o") @@ ("P" :> "p") @@ ("Q" :> "q") @@ ("R" :> "r") @@
  ("S" :> "s") @@ ("T" :> "t") @@ ("U" :> "u") @@ ("V" :> "v") @@ ("W" :> "w") @@ ("X" :> "x") @@
  ("Y" :> "y") @@ ("Z" :> "z")

ToLowerChar(c) == IF c \in DOMAIN UpperToLower THEN UpperToLower[c] ELSE c

\* s.toLowerCase()
ToLowerCase(s) == [i \in 1..Len(s) |-> ToLowerChar(s[i])]

\* s begins with the characters of pre
StartsWith(s, pre) == Len(s) >= Len(pre) /\ SubSeq(s, 1, Len(pre)) = pre

HttpScheme == <<"h", "t", "t", "p", ":", "/", "/">>

HttpsScheme == <<"h", "t", "t", "p", "s", ":", "/", "/">>

\* A plausible slip: /^http:\/\//i, which misses the optional s.
HasHttpOnly(s) == StartsWith(ToLowerCase(s), HttpScheme)

\* /^https?:\/\//i.test(s)
HasHttpScheme(s) ==
  StartsWith(ToLowerCase(s), HttpScheme) \/ StartsWith(ToLowerCase(s), HttpsScheme)

normalizeUrlMaybe(urlLike) ==
  LET raw == Trim(urlLike)
      cleaned == RemoveWhitespace(raw)
  IN  IF raw = <<>> THEN <<>>
      ELSE IF HasHttpScheme(cleaned) THEN cleaned
      ELSE HttpsScheme \o cleaned

----------------------------------------------------------------------------
(* JavaScript objects with string keys: a sequence of <<key, value>> entries *)
(* with distinct keys, in insertion order (the order Object.entries yields). *)

\* key in obj
Has(obj, key) == \E i \in 1..Len(obj) : obj[i][1] = key

\* obj[key] for a key that is present
Get(obj, key) == obj[CHOOSE i \in 1..Len(obj) : obj[i][1] = key][2]

\* obj[key] = value: an existing key keeps its place, a new key is appended
Put(obj, key, value) ==
  IF Has(obj, key)
  THEN [i \in 1..Len(obj) |-> IF obj[i][1] = key THEN <<key, value>> ELSE obj[i]]
  ELSE Append(obj, <<key, value>>)

\* The keys of obj
Keys(obj) == {obj[i][1] : i \in 1..Len(obj)}

----------------------------------------------------------------------------
(* Header canonicalization *)

KeyName == <<"N", "a", "m", "e">>

KeyPhone == <<"P", "h", "o", "n", "e">>

KeyCurrentRole == <<"C", "u", "r", "r", "e", "n", "t", " ", "R", "o", "l", "e">>

KeyKeySkills == <<"K", "e", "y", " ", "S", "k", "i", "l", "l", "s">>

KeyProfileSummary == <<"P", "r", "o", "f", "i", "l", "e", " ", "S", "u", "m", "m", "a", "r", "y">>

KeyJDLink == <<"J", "D", " ", "L", "i", "n", "k">>

REQUIRED_COLUMNS ==
  <<KeyName, KeyPhone, KeyCurrentRole, KeyKeySkills, KeyProfileSummary, KeyJDLink>>

\* Maps common header variants (in compact form) to canonical keys.
HEADER_ALIASES ==
  <<<<<<"n", "a", "m", "e">>, KeyName>>,
    <<<<"f", "u", "l", "l", "n", "a", "m", "e">>, KeyName>>,
    <<<<"c", "a", "n", "d", "i", "d", "a", "t", "e">>, KeyName>>,
    <<<<"p", "h", "o", "n", "e">>, KeyPhone>>,
    <<<<"p", "h", "o", "n", "e", "n", "u", "m", "b", "e", "r">>, KeyPhone>>,
    <<<<"m", "o", "b", "i", "l", "e", "n", "u", "m", "b", "e", "r">>, KeyPhone>>,
    <<<<"m", "o", "b", "i", "l", "e">>, KeyPhone>>,
    <<<<"c", "o", "n", "t", "a", "c", "t">>, KeyPhone>>,
    <<<<"c", "u", "r", "r", "e", "n", "t", "r", "o", "l", "e">>, KeyCurrentRole>>,
    <<<<"r", "o", "l", "e">>, KeyCurrentRole>>,
    <<<<"d", "e", "s", "i", "g", "n", "a", "t", "i", "o", "n">>, KeyCurrentRole>>,
    <<<<"k", "e", "y", "s", "k", "i", "l", "l", "s">>, KeyKeySkills>>,
    <<<<"s", "k", "i", "l", "l", "s">>, KeyKeySkills>>,
    <<<<"p", "r", "o", "f", "i", "l", "e", "s", "u", "m", "m", "a", "r", "y">>, KeyProfileSummary>>,
    <<<<"s", "u", "m", "m", "a", "r", "y">>, KeyProfileSummary>>,
    <<<<"j", "d">>, KeyJDLink>>,
    <<<<"j", "d", "l", "i", "n", "k">>, KeyJDLink>>,
    <<<<"j", "o", "b", "d", "e", "s", "c", "r", "i", "p", "t", "i", "o", "n">>, KeyJDLink>>,
    <<<<"j", "o", "b", "l", "i", "n", "k">>, KeyJDLink>>,
    <<<<"l", "i", "n", "k">>, KeyJDLink>>>>

LowerAlnumChars ==
  {"a", "b", "c", "d", "e", "f", "g", "h", "i", "j", "k", "l", "m",
   "n", "o", "p", "q", "r", "s", "t", "u", "v", "w", "x", "y", "z"}
    \cup DigitChars

IsLowerAlnum(c) == c \in LowerAlnumChars

\* String(key).toLowerCase().replace(/[^a-z0-9]/g, '')
Compact(key) == SelectSeq(ToLowerCase(key), IsLowerAlnum)

\* What HEADER_ALIASES[compact] finds on the prototype of the object literal
\* for a compact form that is not one of its own keys: of the properties of
\* Object.prototype only `constructor` is written in a-z0-9 alone. Its value is
\* the function Object, which becomes this text when used as a property key.
INHERITED_ALIASES ==
  <<<<<<"c", "o", "n", "s", "t", "r", "u", "c", "t", "o", "r">>,
      <<"f", "u", "n", "c", "t", "i", "o", "n", " ", "O", "b", "j", "e", "c", "t", "(", ")", " ", "{", " ", "[", "n", "a", "t", "i", "v", "e", " ", "c", "o", "d", "e", "]", " ", "}">>>>>>

\* A plausible slip: the header is looked up as written, not in compact form.
normalizeHeaderKeyAsWritten(key) ==
  IF Has(HEADER_ALIASES, key) THEN Get(HEADER_ALIASES, key)
  ELSE IF Has(INHERITED_ALIASES, key) THEN Get(INHERITED_ALIASES, key)
  ELSE key

\* HEADER_ALIASES[compact] || key
normalizeHeaderKey(key) ==
  IF Has(HEADER_ALIASES, Compact(key)) THEN Get(HEADER_ALIASES, Compact(key))
  ELSE IF Has(INHERITED_ALIASES, Compact(key)) THEN Get(INHERITED_ALIASES, Compact(key))
  ELSE key

\* The loop of normalizeRowHeaders over the entries from position i onwards.
RECURSIVE NormalizeEntriesFrom(_, _, _)
NormalizeEntriesFrom(row, i, normalized) ==
  IF i > Len(row) THEN normalized
  ELSE NormalizeEntriesFrom(row, i + 1,
         Put(normalized, normalizeHeaderKey(row[i][1]), row[i][2]))

normalizeRowHeaders(row) == NormalizeEntriesFrom(row, 1, <<>>)

\* The loop of ensureColumns over REQUIRED_COLUMNS from position i onwards.
RECURSIVE AddMissingFrom(_, _)
AddMissingFrom(normalized, i) ==
  IF i > Len(REQUIRED_COLUMNS) THEN normalized
  ELSE AddMissingFrom(
         IF Has(normalized, REQUIRED_COLUMNS[i]) THEN normalized
         ELSE Put(normalized, REQUIRED_COLUMNS[i], <<>>),
         i + 1)

\* A plausible slip: the loop over REQUIRED_COLUMNS is left out.
ensureColumnsNoFill(row) == normalizeRowHeaders(row)

ensureColumns(row) == AddMissingFrom(normalizeRowHeaders(row), 1)

----------------------------------------------------------------------------
(* generateMessage *)

\* The built-in template, shortened to its first line, an empty line and one
\* line that holds the two other placeholders; the text between them is kept
\* to a few words.
DEFAULT_TEMPLATE ==
  <<"D", "e", "a", "r", " ", "*", "{", "N", "A", "M", "E", "}", "*", ",", "\n", "\n", "*", "{", "R", "O", "L", "E", "}", "*", ":", " ", "{", "J", "D", "_", "L", "I", "N", "K", "}">>

PlaceholderName == <<"{", "N", "A", "M", "E", "}">>

PlaceholderRole == <<"{", "R", "O", "L", "E", "}">>

PlaceholderJdLink == <<"{", "J", "D", "_", "L", "I", "N", "K", "}">>

fillTemplate(tpl, name, role, jd) ==
  LET safe == IF tpl = <<>> THEN DEFAULT_TEMPLATE ELSE tpl
  IN  ReplaceAll(ReplaceAll(ReplaceAll(safe, PlaceholderName, name),
                            PlaceholderRole, role),
                 PlaceholderJdLink, jd)

\* A plausible slip: the fallback `|| ''` is forgotten and a missing field is
\* rendered by its conversion to text.
FieldTextNoFallback(row, key) ==
  IF Has(row, key) THEN Trim(Get(row, key))
  ELSE <<"u", "n", "d", "e", "f", "i", "n", "e", "d">>

\* row[key]?.toString().trim() || ''
FieldText(row, key) == IF Has(row, key) THEN Trim(Get(row, key)) ELSE <<>>

generateMessage(row, tpl) ==
  fillTemplate(tpl, FieldText(row, KeyName), FieldText(row, KeyCurrentRole),
               FieldText(row, KeyJDLink))

----------------------------------------------------------------------------
(* The decoded rows and the settings values of the model *)

MaxRows == 2

\* Canonical headers, a 10-digit phone, no link
RowAva ==
  <<<<<<"N", "a", "m", "e">>, <<"A", "v", "a">>>>,
      <<<<"P", "h", "o", "n", "e">>, <<"9", "8", "7", "6", "5", "4", "3", "2", "1", "0">>>>,
      <<<<"C", "u", "r", "r", "e", "n", "t", " ", "R", "o", "l", "e">>, <<"D", "e", "v">>>>,
      <<<<"J", "D", " ", "L", "i", "n", "k">>, <<>>>>>>

\* Alias headers, the same number written with +91 and spaces, a link without scheme
RowBo ==
  <<<<<<"F", "u", "l", "l", " ", "N", "a", "m", "e">>, <<"B", "o">>>>,
      <<<<"M", "o", "b", "i", "l", "e", " ", "N", "u", "m", "b", "e", "r">>, <<"+", "9", "1", " ", "9", "8", "7", "6", "5", " ", "4", "3", "2", "1", "0">>>>,
      <<<<"D", "e", "s", "i", "g", "n", "a", "t", "i", "o", "n">>, <<"Q", "A">>>>,
      <<<<"l", "i", "n", "k">>, <<"a", ".", "c", "o">>>>>>

\* Lower-case headers, a 3-digit phone, no role, no link
RowCy ==
  <<<<<<"n", "a", "m", "e">>, <<"C", "y">>>>,
      <<<<"p", "h", "o", "n", "e">>, <<"1", "2", "3">>>>,
      <<<<"r", "o", "l", "e">>, <<>>>>,
      <<<<"j", "d">>, <<>>>>>>

\* An empty phone, a link with an upper-case scheme, an unknown column
RowDi ==
  <<<<<<"N", "a", "m", "e">>, <<"D", "i">>>>,
      <<<<"P", "h", "o", "n", "e">>, <<>>>>,
      <<<<"C", "u", "r", "r", "e", "n", "t", " ", "R", "o", "l", "e">>, <<"D", "e", "v">>>>,
      <<<<"J", "D", " ", "L", "i", "n", "k">>, <<"H", "T", "T", "P", ":", "/", "/", "a", ".", "c", "o">>>>,
      <<<<"N", "o", "t", "e", "s">>, <<"x">>>>>>

\* A phone without digits, a blank link
RowEve ==
  <<<<<<"C", "a", "n", "d", "i", "d", "a", "t", "e">>, <<"E", "v", "e">>>>,
      <<<<"C", "o", "n", "t", "a", "c", "t">>, <<"n", "/", "a">>>>,
      <<<<"R", "o", "l", "e">>, <<"Q", "A">>>>,
      <<<<"J", "D", " ", "L", "i", "n", "k">>, <<" ">>>>>>

RowChoices == {RowAva, RowBo, RowCy, RowDi, RowEve}

\* The two rows of const sample in loadSampleData, their texts shortened to a
\* word each; the phones are the sample's: one written +91 with a space, one of
\* ten digits, and one link without scheme, one with https://.
SampleAarav ==
  <<<<<<"N", "a", "m", "e">>,
      <<"A", "a", "r", "a", "v">>>>,
    <<<<"P", "h", "o", "n", "e">>,
      <<"+", "9", "1", " ", "9", "8", "7", "6", "5", "4", "3", "2", "1", "0">>>>,
    <<<<"C", "u", "r", "r", "e", "n", "t", " ", "R", "o", "l", "e">>,
      <<"F", "E">>>>,
    <<<<"K", "e", "y", " ", "S", "k", "i", "l", "l", "s">>,
      <<"J", "S">>>>,
    <<<<"P", "r", "o", "f", "i", "l", "e", " ", "S", "u", "m", "m", "a", "r", "y">>,
      <<"3", "+", " ", "y", "r", "s">>>>,
    <<<<"J", "D", " ", "L", "i", "n", "k">>,
      <<"i", "k", "f", ".", "c", "o", ".", "i", "n", "/", "f", "e">>>>>>

SampleRiya ==
  <<<<<<"N", "a", "m", "e">>,
      <<"R", "i", "y", "a">>>>,
    <<<<"P", "h", "o", "n", "e">>,
      <<"9", "8", "7", "6", "5", "0", "1", "2", "3", "4">>>>,
    <<<<"C", "u", "r", "r", "e", "n", "t", " ", "R", "o", "l", "e">>,
      <<"U", "X">>>>,
    <<<<"K", "e", "y", " ", "S", "k", "i", "l", "l", "s">>,
      <<"F", "i", "g", "m", "a">>>>,
    <<<<"P", "r", "o", "f", "i", "l", "e", " ", "S", "u", "m", "m", "a", "r", "y">>,
      <<"5", "+", " ", "y", "r", "s">>>>,
    <<<<"J", "D", " ", "L", "i", "n", "k">>,
      <<"h", "t", "t", "p", "s", ":", "/", "/", "i", "k", "f", ".", "c", "o", ".", "i", "n", "/", "u", "x">>>>>>

sample == <<SampleAarav, SampleRiya>>

\* Every row handleParsedRows is given in the model.
DecodedRows == RowChoices \cup {SampleAarav, SampleRiya}

\* The row lists a decoder (CSV, Excel, paste) can hand to handleParsedRows.
RowLists == SeqsUpTo(RowChoices, MaxRows)

CountryCodeChoices == {<<"9", "1">>, <<"1">>}

\* The built-in template, and one typed with a backslash and an n for a line break.
TemplateChoices ==
  {DEFAULT_TEMPLATE,
   <<"H", "i", " ", "{", "N", "A", "M", "E", "}", ",", "\\", "n",
     "r", "o", "l", "e", " ", "{", "R", "O", "L", "E", "}">>}

SearchChoices == {<<>>, <<" ", "A">>}

----------------------------------------------------------------------------
(* The processed memo: classification, deduplication, search filter *)

WaMePrefix == <<"h", "t", "t", "p", "s", ":", "/", "/", "w", "a", ".", "m", "e", "/">>

TextParam == <<"?", "t", "e", "x", "t", "=">>

\* A plausible slip: the message is put into the link without encoding it.
WhatsAppLinkUnencoded(phone, message) ==
  WaMePrefix \o phone \o TextParam \o message

\* `https://wa.me/${phone}?text=${encoded}`
WhatsAppLink(phone, message) ==
  WaMePrefix \o phone \o TextParam \o encodeForWhatsApp(message)

\* The display object of a row, with its WhatsApp_Link.
Record(normalized, phone, jdNorm, link) ==
  [Name |-> Get(normalized, KeyName), Phone |-> phone, WhatsApp_Link |-> link]
    @@ ("Current Role" :> Get(normalized, KeyCurrentRole))
    @@ ("JD Link" :> jdNorm)

\* A plausible slip: the phone is never added to seenPhones.
ForgetSeenPhone(seen, phone) == seen

\* seenPhones.add(phone)
AddSeenPhone(seen, phone) == seen \cup {phone}

\* What one iteration of the loop of processed computes from row r before it
\* chooses a bucket: the phone, the link, and the record with and without its
\* WhatsApp_Link.
RowResult(r, cc, tpl, autoDetect) ==
  LET normalized == ensureColumns(r)
      phone == cleanPhone(Get(normalized, KeyPhone), cc, autoDetect)
      jdNorm == normalizeUrlMaybe(Get(normalized, KeyJDLink))
      message == generateMessage(Put(normalized, KeyJDLink, jdNorm), tpl)
  IN  [phone |-> phone, jdNorm |-> jdNorm, message |-> message,
       record |-> Record(normalized, phone, jdNorm, WhatsAppLink(phone, message)),
       unlinked |-> Record(normalized, phone, jdNorm, <<>>)]

\* ensureColumns tabulated over the decoded rows of the model.
EnsuredOf == [r \in DecodedRows |-> ensureColumns(r)] @@ <<>>

\* The rows that setRows can store: list.map(ensureColumns) of a decoded row.
StoredRows == {EnsuredOf[r] : r \in DecodedRows}

\* A plausible slip: the default code 91 is prepended whatever the setting is.
FixPhoneDefaultCode(r, cc) ==
  IF Len(StripNonDigits(Get(r, KeyPhone))) = 10
  THEN Put(r, KeyPhone, DefaultCountryCode \o StripNonDigits(Get(r, KeyPhone)))
  ELSE r

\* The function fixTenDigitPhones maps over rows: a Phone of exactly ten
\* digits is replaced by `${cc}${digits}`, any other row is returned as it is.
FixPhone(r, cc) ==
  IF Len(StripNonDigits(Get(r, KeyPhone))) = 10
  THEN Put(r, KeyPhone, EffectiveCountryCode(cc) \o StripNonDigits(Get(r, KeyPhone)))
  ELSE r

\* The rows setRows can be given by fixTenDigitPhones.
FixedRows ==
  {Put(r, KeyPhone, cc \o StripNonDigits(Get(r, KeyPhone))) :
     r \in StoredRows, cc \in CountryCodeChoices \cup {DefaultCountryCode}}

\* RowResult tabulated over the rows and settings of the model (the loop calls
\* the same pure helpers with the same arguments on every recomputation).
\* Adding the empty function with @@ changes nothing and has the table
\* evaluated once instead of once per step.
RowResultOf ==
  [r \in StoredRows \cup FixedRows, cc \in CountryCodeChoices, tpl \in TemplateChoices,
   autoDetect \in BOOLEAN |-> RowResult(r, cc, tpl, autoDetect)] @@ <<>>

\* A plausible slip: the row is pushed to missing before the duplicate check.
ProcessRowMissingFirst(acc, x, dedupe) ==
  IF x.phone = <<>>
  THEN [acc EXCEPT !.invalid = Append(@, x.unlinked),
                   !.missing = IF x.jdNorm = <<>> THEN Append(@, x.unlinked) ELSE @]
  ELSE IF dedupe /\ x.phone \in acc.seenPhones
  THEN [acc EXCEPT !.missing = IF x.jdNorm = <<>> THEN Append(@, x.record) ELSE @]
  ELSE [acc EXCEPT !.seenPhones = IF dedupe THEN AddSeenPhone(@, x.phone) ELSE @,
                   !.out = Append(@, x.record),
                   !.missing = IF x.jdNorm = <<>> THEN Append(@, x.record) ELSE @]

\* A plausible slip: the test `if (!phone)` is left out.
ProcessRowNoPhoneTest(acc, x, dedupe) ==
  IF dedupe /\ x.phone \in acc.seenPhones
  THEN acc
  ELSE [acc EXCEPT !.seenPhones = IF dedupe THEN AddSeenPhone(@, x.phone) ELSE @,
                   !.out = Append(@, x.record),
                   !.missing = IF x.jdNorm = <<>> THEN Append(@, x.record) ELSE @]

\* A plausible slip: a row without a phone is never pushed to missing.
ProcessRowInvalidNotMissing(acc, x, dedupe) ==
  IF x.phone = <<>>
  THEN [acc EXCEPT !.invalid = Append(@, x.unlinked)]
  ELSE IF dedupe /\ x.phone \in acc.seenPhones
  THEN acc
  ELSE [acc EXCEPT !.seenPhones = IF dedupe THEN AddSeenPhone(@, x.phone) ELSE @,
                   !.out = Append(@, x.record),
                   !.missing = IF x.jdNorm = <<>> THEN Append(@, x.record) ELSE @]

\* A plausible slip: records are added at the front (unshift) instead of pushed.
ProcessRowUnshift(acc, x, dedupe) ==
  IF x.phone = <<>>
  THEN [acc EXCEPT !.invalid = <<x.unlinked>> \o @,
                   !.missing = IF x.jdNorm = <<>> THEN <<x.unlinked>> \o @ ELSE @]
  ELSE IF dedupe /\ x.phone \in acc.seenPhones
  THEN acc
  ELSE [acc EXCEPT !.seenPhones = IF dedupe THEN AddSeenPhone(@, x.phone) ELSE @,
                   !.out = <<x.record>> \o @,
                   !.missing = IF x.jdNorm = <<>> THEN <<x.record>> \o @ ELSE @]

\* A plausible slip: the `continue` of the branch without phone is left out.
ProcessRowNoContinue(acc, x, dedupe) ==
  IF x.phone = <<>>
  THEN [acc EXCEPT !.invalid = Append(@, x.unlinked),
                   !.out = Append(@, x.record),
                   !.missing = IF x.jdNorm = <<>>
                               THEN Append(Append(@, x.unlinked), x.record) ELSE @]
  ELSE IF dedupe /\ x.phone \in acc.seenPhones
  THEN acc
  ELSE [acc EXCEPT !.seenPhones = IF dedupe THEN AddSeenPhone(@, x.phone) ELSE @,
                   !.out = Append(@, x.record),
                   !.missing = IF x.jdNorm = <<>> THEN Append(@, x.record) ELSE @]

\* One iteration of the loop of processed, on the results x of its row.
ProcessRow(acc, x, dedupe) ==
  IF x.phone = <<>>
  THEN [acc EXCEPT !.invalid = Append(@, x.unlinked),
                   !.missing = IF x.jdNorm = <<>> THEN Append(@, x.unlinked) ELSE @]
  ELSE IF dedupe /\ x.phone \in acc.seenPhones
  THEN acc
  ELSE [acc EXCEPT !.seenPhones = IF dedupe THEN AddSeenPhone(@, x.phone) ELSE @,
                   !.out = Append(@, x.record),
                   !.missing = IF x.jdNorm = <<>> THEN Append(@, x.record) ELSE @]

\* The loop of processed over the rows from position i onwards.
RECURSIVE ProcessFrom(_, _, _, _, _, _, _)
ProcessFrom(acc, rs, i, cc, tpl, dedupe, autoDetect) ==
  IF i > Len(rs) THEN acc
  ELSE ProcessFrom(ProcessRow(acc, RowResultOf[rs[i], cc, tpl, autoDetect], dedupe),
                   rs, i + 1, cc, tpl, dedupe, autoDetect)

\* out, missing and invalid when the loop ends.
Classify(rs, cc, tpl, dedupe, autoDetect) ==
  LET acc == ProcessFrom([out |-> <<>>, missing |-> <<>>, invalid |-> <<>>,
                          seenPhones |-> {}],
                         rs, 1, cc, tpl, dedupe, autoDetect)
  IN  [out |-> acc.out, missing |-> acc.missing, invalid |-> acc.invalid]

\* s.includes(sub)
Includes(s, sub) ==
  \E i \in 1..(Len(s) - Len(sub) + 1) : SubSeq(s, i, i + Len(sub) - 1) = sub

\* A plausible slip: only the Name is compared with the query.
MatchesQueryNameOnly(r, q) == Includes(ToLowerCase(r["Name"]), q)

\* The predicate of arr.filter in filterByQuery, for a non-empty q.
MatchesQuery(r, q) ==
  Includes(ToLowerCase(r["Name"]), q) \/ Includes(ToLowerCase(r["Current Role"]), q)

\* filterByQuery(arr) with q = search.trim().toLowerCase()
filterByQuery(arr, searchText) ==
  LET q == ToLowerCase(Trim(searchText))
      Keep(r) == MatchesQuery(r, q)
  IN  IF q = <<>> THEN arr ELSE SelectSeq(arr, Keep)

\* A plausible slip: the rows are filtered by the query before they are
\* classified, so that deduplication is decided among the shown rows only.
RecomputeFilterFirst(rs, cc, tpl, dedupe, autoDetect, searchText) ==
  LET q == ToLowerCase(Trim(searchText))
      Keep(r) == MatchesQuery(RowResultOf[r, cc, tpl, autoDetect].record, q)
      shown == IF q = <<>> THEN rs ELSE SelectSeq(rs, Keep)
  IN  /\ buckets' = Classify(rs, cc, tpl, dedupe, autoDetect)
      /\ processed' = Classify(shown, cc, tpl, dedupe, autoDetect)

\* The memo recomputed from the next values of its dependencies.
Recompute(rs, cc, tpl, dedupe, autoDetect, searchText) ==
  /\ buckets' = Classify(rs, cc, tpl, dedupe, autoDetect)
  /\ processed' = [out |-> filterByQuery(buckets'.out, searchText),
                   missing |-> filterByQuery(buckets'.missing, searchText),
                   invalid |-> filterByQuery(buckets'.invalid, searchText)]

----------------------------------------------------------------------------
(* The state after construction of the App component *)

NoCall == [name |-> "none"]

EmptyBuckets == [out |-> <<>>, missing |-> <<>>, invalid |-> <<>>]

InitApp ==
  /\ rows = <<>>
  /\ countryCode = <<"9", "1">>
  /\ template = DEFAULT_TEMPLATE
  /\ dedupeByPhone = TRUE
  /\ autoDetectCountry = TRUE
  /\ search = <<>>
  /\ buckets = EmptyBuckets
  /\ processed = EmptyBuckets
  /\ errors = <<>>
  /\ columnMapping = <<>>
  /\ isLoading = FALSE
  /\ pending = <<>>
  /\ requested = <<>>
  /\ openIndex = 0
  /\ batchSize = 10

----------------------------------------------------------------------------
(* The App component: loading rows, Clear, and the settings *)

\* list.map(ensureColumns)
MapEnsureColumns(list) == [i \in 1..Len(list) |-> EnsuredOf[list[i]]]

\* The test of REQUIRED_COLUMNS.filter(c => !(c in normalized[0] || {})):
\* `in` binds tighter than ||, so the operand of ! is (c in normalized[0]) or,
\* when that is false, the object literal, which is truthy.
IsMissingCol(first, c) == ~(Has(first, c) \/ TRUE)

missingCols(normalized) ==
  LET Test(c) == IsMissingCol(normalized[1], c)
  IN  SelectSeq(REQUIRED_COLUMNS, Test)

\* cols.join(', ') from position i onwards
RECURSIVE JoinFrom(_, _)
JoinFrom(cols, i) ==
  IF i > Len(cols) THEN <<>>
  ELSE IF i = Len(cols) THEN cols[i]
  ELSE cols[i] \o <<",", " ">> \o JoinFrom(cols, i + 1)

MissingColumnsPrefix ==
  <<"M", "i", "s", "s", "i", "n", "g", " ", "r", "e", "q", "u", "i", "r", "e", "d", " ", "c", "o", "l", "u", "m", "n", "s", ":", " ">>

\* The value handleParsedRows gives to setErrors.
MissingColumnsErrors(normalized) ==
  IF Len(missingCols(normalized)) # 0
  THEN <<MissingColumnsPrefix \o JoinFrom(missingCols(normalized), 1)>>
  ELSE <<>>

\* handleParsedRows(list), with the setRows of its timer. An empty list throws
\* at normalized[0] before the timer is set and stores nothing.
handleParsedRows(list) ==
  /\ list # <<>>
  /\ errors' = MissingColumnsErrors(MapEnsureColumns(list))
  /\ rows' = MapEnsureColumns(list)
  /\ requested' = rows'
  /\ Recompute(rows', countryCode, template, dedupeByPhone, autoDetectCountry, search)
  /\ UNCHANGED <<countryCode, template, dedupeByPhone, autoDetectCountry, search,
                 columnMapping, loaderVars, batchVars, fn>>

\* The Clear button: setRows([]) and setErrors([])
Clear ==
  /\ rows' = <<>>
  /\ errors' = <<>>
  /\ requested' = <<>>
  /\ Recompute(rows', countryCode, template, dedupeByPhone, autoDetectCountry, search)
  /\ UNCHANGED <<countryCode, template, dedupeByPhone, autoDetectCountry, search,
                 columnMapping, loaderVars, batchVars, fn>>

setCountryCode(v) ==
  /\ countryCode' = v
  /\ Recompute(rows, countryCode', template, dedupeByPhone, autoDetectCountry, search)
  /\ UNCHANGED <<rows, template, dedupeByPhone, autoDetectCountry, search, errors,
                 columnMapping, requested, loaderVars, batchVars, fn>>

setTemplate(v) ==
  /\ template' = v
  /\ Recompute(rows, countryCode, template', dedupeByPhone, autoDetectCountry, search)
  /\ UNCHANGED <<rows, countryCode, dedupeByPhone, autoDetectCountry, search, errors,
                 columnMapping, requested, loaderVars, batchVars, fn>>

setDedupeByPhone(v) ==
  /\ dedupeByPhone' = v
  /\ Recompute(rows, countryCode, template, dedupeByPhone', autoDetectCountry, search)
  /\ UNCHANGED <<rows, countryCode, template, autoDetectCountry, search, errors,
                 columnMapping, requested, loaderVars, batchVars, fn>>

setAutoDetectCountry(v) ==
  /\ autoDetectCountry' = v
  /\ Recompute(rows, countryCode, template, dedupeByPhone, autoDetectCountry', search)
  /\ UNCHANGED <<rows, countryCode, template, dedupeByPhone, search, errors,
                 columnMapping, requested, loaderVars, batchVars, fn>>

setSearch(v) ==
  /\ search' = v
  /\ Recompute(rows, countryCode, template, dedupeByPhone, autoDetectCountry, search')
  /\ UNCHANGED <<rows, countryCode, template, dedupeByPhone, autoDetectCountry, errors,
                 columnMapping, requested, loaderVars, batchVars, fn>>

Init ==
  /\ InitApp
  /\ fn = NoCall

Next ==
  \/ \E list \in RowLists : handleParsedRows(list)
  \/ Clear
  \/ \E v \in CountryCodeChoices : setCountryCode(v)
  \/ \E v \in TemplateChoices : setTemplate(v)
  \/ \E v \in BOOLEAN : setDedupeByPhone(v)
  \/ \E v \in BOOLEAN : setAutoDetectCountry(v)
  \/ \E v \in SearchChoices : setSearch(v)

Spec == Init /\ [][Next]_vars

----------------------------------------------------------------------------
(* cleanPhone as a pure function: inputs drawn from bounded sets *)

MaxPrefixLen == 3

PhonePrefixChars == {"+", "9", "1", " "}

LocalDigits == <<"9", "8", "7", "6", "5", "4", "3", "2", "1", "0">>

\* Raw phone values: a prefix of up to MaxPrefixLen characters followed by the
\* last k digits of a local number (k = 0..10), or by a hyphenated local number.
PhoneBodies ==
  {SubSeq(LocalDigits, 11 - k, 10) : k \in 0..10}
    \cup {<<"9", "8", "7", "6", "5", "-", "4", "3", "2", "1", "0">>}

PhoneInputs ==
  {p \o b : p \in SeqsUpTo(PhonePrefixChars, MaxPrefixLen), b \in PhoneBodies}

CountryCodeInputs ==
  {<<"9", "1">>, <<>>, <<"+", "1">>, <<"a", "b">>, <<"1", "2", "3", "4">>}

InitPhone ==
  /\ InitApp
  /\ \E raw \in PhoneInputs, cc \in CountryCodeInputs, auto \in BOOLEAN :
       fn = [name |-> "cleanPhone", raw |-> raw, countryCode |-> cc,
             autoDetectCountry |-> auto, done |-> FALSE, ret |-> <<>>]

CallCleanPhone ==
  /\ fn.name = "cleanPhone"
  /\ ~fn.done
  /\ fn' = [fn EXCEPT !.done = TRUE,
                      !.ret = cleanPhone(fn.raw, fn.countryCode, fn.autoDetectCountry)]
  /\ UNCHANGED appVars

NextPhone == CallCleanPhone

SpecPhone == InitPhone /\ [][NextPhone]_vars

----------------------------------------------------------------------------
(* encodeForWhatsApp as a pure function: inputs drawn from bounded sets *)

MaxMsgLen == 3

MessageChars == {"a", "n", " ", "\n", "\\", "*", "%"}

MessageInputs == SeqsUpTo(MessageChars, MaxMsgLen)

InitEncode ==
  /\ InitApp
  /\ \E text \in MessageInputs :
       fn = [name |-> "encodeForWhatsApp", text |-> text, done |-> FALSE, ret |-> <<>>]

CallEncodeForWhatsApp ==
  /\ fn.name = "encodeForWhatsApp"
  /\ ~fn.done
  /\ fn' = [fn EXCEPT !.done = TRUE, !.ret = encodeForWhatsApp(fn.text)]
  /\ UNCHANGED appVars

NextEncode == CallEncodeForWhatsApp

SpecEncode == InitEncode /\ [][NextEncode]_vars

----------------------------------------------------------------------------
(* normalizeUrlMaybe as a pure function: inputs drawn from bounded sets *)

MaxUrlBody == 2

\* Beginnings of a link value: no scheme, the two schemes in lower, upper and
\* mixed case, a scheme broken by white space, and near misses.
SchemeForms ==
  { <<>>,
    <<"h", "t", "t", "p", ":", "/", "/">>,
    <<"h", "t", "t", "p", "s", ":", "/", "/">>,
    <<"H", "T", "T", "P", ":", "/", "/">>,
    <<"H", "t", "t", "p", "S", ":", "/", "/">>,
    <<"h", "t", " ", "t", "p", ":", "/", "/">>,
    <<"h", "t", "t", "p", ":", "/">>,
    <<"h", "t", "t", "p", "s", ":">>,
    <<"h", "t", "t", "p", "/", "/">> }

UrlBodyChars == {"a", " ", "/", "."}

UrlInputs ==
  {lead \o scheme \o body \o trail :
     lead \in {<<>>, <<" ">>}, scheme \in SchemeForms,
     body \in SeqsUpTo(UrlBodyChars, MaxUrlBody), trail \in {<<>>, <<"\t">>}}

InitUrl ==
  /\ InitApp
  /\ \E u \in UrlInputs :
       fn = [name |-> "normalizeUrlMaybe", urlLike |-> u, done |-> FALSE, ret |-> <<>>]

CallNormalizeUrlMaybe ==
  /\ fn.name = "normalizeUrlMaybe"
  /\ ~fn.done
  /\ fn' = [fn EXCEPT !.done = TRUE, !.ret = normalizeUrlMaybe(fn.urlLike)]
  /\ UNCHANGED appVars

NextUrl == CallNormalizeUrlMaybe

SpecUrl == InitUrl /\ [][NextUrl]_vars

----------------------------------------------------------------------------
(* ensureColumns as a pure function: raw rows drawn from bounded sets *)

MaxCols == 2

\* Raw headers: a canonical key, two alias spellings of keys (two of the three
\* meet on Name), a header with punctuation, an unknown header, and a header
\* that names a property of Object.prototype.
HeaderChoices ==
  { <<"N", "a", "m", "e">>,
    <<"F", "u", "l", "l", " ", "N", "a", "m", "e">>,
    <<"c", "a", "n", "d", "i", "d", "a", "t", "e">>,
    <<"J", "D", "-", "L", "i", "n", "k">>,
    <<"N", "o", "t", "e", "s">>,
    <<"c", "o", "n", "s", "t", "r", "u", "c", "t", "o", "r">> }

CellChoices == {<<>>, <<"x">>, <<"y">>}

\* A decoded row: up to MaxCols columns with different headers.
RawRows ==
  {row \in SeqsUpTo(HeaderChoices \X CellChoices, MaxCols) :
     \A i, j \in 1..Len(row) : i # j => row[i][1] # row[j][1]}

InitHeaders ==
  /\ InitApp
  /\ \E row \in RawRows :
       fn = [name |-> "ensureColumns", row |-> row, done |-> FALSE, ret |-> <<>>]

CallEnsureColumns ==
  /\ fn.name = "ensureColumns"
  /\ ~fn.done
  /\ fn' = [fn EXCEPT !.done = TRUE, !.ret = ensureColumns(fn.row)]
  /\ UNCHANGED appVars

NextHeaders == CallEnsureColumns

SpecHeaders == InitHeaders /\ [][NextHeaders]_vars

----------------------------------------------------------------------------
(* The operator's column mapping (second App component) *)

MaxMapped == 2

\* The loop of the mappingLookup memo over the entries from position i onwards.
RECURSIVE MappingLookupFrom(_, _, _)
MappingLookupFrom(mapping, i, map) ==
  IF i > Len(mapping) THEN map
  ELSE MappingLookupFrom(mapping, i + 1,
         IF mapping[i][2] = <<>> THEN map
         ELSE Put(map, Compact(mapping[i][2]), mapping[i][1]))

\* The mappingLookup memo: compact form of the chosen header -> canonical key
mappingLookup(mapping) == MappingLookupFrom(mapping, 1, <<>>)

\* A plausible slip: the alias table is asked before the operator's mapping.
normalizeHeaderKeyAliasFirst(key, lookup) ==
  IF Has(HEADER_ALIASES, Compact(key)) THEN Get(HEADER_ALIASES, Compact(key))
  ELSE IF Has(lookup, Compact(key)) THEN Get(lookup, Compact(key))
  ELSE IF Has(INHERITED_ALIASES, Compact(key)) THEN Get(INHERITED_ALIASES, Compact(key))
  ELSE key

\* normalizeHeaderKey(key, mappingLookup) of the second App component:
\* mappingLookup[compact] || HEADER_ALIASES[compact] || key
\* (mappingLookup is an object literal too and inherits `constructor`).
normalizeHeaderKeyMapped(key, lookup) ==
  IF Has(lookup, Compact(key)) THEN Get(lookup, Compact(key))
  ELSE IF Has(INHERITED_ALIASES, Compact(key)) THEN Get(INHERITED_ALIASES, Compact(key))
  ELSE IF Has(HEADER_ALIASES, Compact(key)) THEN Get(HEADER_ALIASES, Compact(key))
  ELSE key

\* The headers of the loaded file that the selects of the mapping panel offer:
\* one that is no alias and one that the alias table maps to Current Role.
DetectedHeaders == <<<<"E", "m", "p", " ", "N", "a", "m", "e">>, <<"R", "o", "l", "e">>>>

\* The raw headers handed to normalizeHeaderKey: the detected headers, and a
\* second spelling with the compact form of one of them.
HeaderKeyInputs ==
  {DetectedHeaders[k] : k \in 1..Len(DetectedHeaders)} \cup {<<"R", "O", "L", "E", " ">>}

\* The select of canonical key c: setColumnMapping(prev => ({ ...prev, [c]: value }))
setColumnMapping(c, value) ==
  /\ Len(Put(columnMapping, c, value)) <= MaxMapped
  /\ columnMapping' = Put(columnMapping, c, value)
  /\ fn' = NoCall
  /\ UNCHANGED <<rows, countryCode, template, dedupeByPhone, autoDetectCountry, search,
                 buckets, processed, errors, requested, loaderVars, batchVars>>

\* The loop of the Auto-map button over detectedHeaders from position i onwards.
RECURSIVE AutoMapFrom(_, _)
AutoMapFrom(next, i) ==
  IF i > Len(DetectedHeaders) THEN next
  ELSE LET compact == Compact(DetectedHeaders[i])
           canonical == IF Has(HEADER_ALIASES, compact) THEN Get(HEADER_ALIASES, compact)
                        ELSE IF Has(INHERITED_ALIASES, compact)
                             THEN Get(INHERITED_ALIASES, compact)
                        ELSE <<>>
       IN  AutoMapFrom(
             IF canonical # <<>> /\ (~Has(next, canonical) \/ Get(next, canonical) = <<>>)
             THEN Put(next, canonical, DetectedHeaders[i])
             ELSE next,
             i + 1)

\* The Auto-map button
AutoMap ==
  /\ Len(AutoMapFrom(columnMapping, 1)) <= MaxMapped
  /\ columnMapping' = AutoMapFrom(columnMapping, 1)
  /\ fn' = NoCall
  /\ UNCHANGED <<rows, countryCode, template, dedupeByPhone, autoDetectCountry, search,
                 buckets, processed, errors, requested, loaderVars, batchVars>>

\* The Clear button of the mapping panel: setColumnMapping({})
ClearColumnMapping ==
  /\ columnMapping' = <<>>
  /\ fn' = NoCall
  /\ UNCHANGED <<rows, countryCode, template, dedupeByPhone, autoDetectCountry, search,
                 buckets, processed, errors, requested, loaderVars, batchVars>>

\* One call normalizeHeaderKey(key, mappingLookup) under the current mapping;
\* the call record is dropped when the mapping changes.
CallNormalizeHeaderKey(key) ==
  /\ fn' = [name |-> "normalizeHeaderKey", key |-> key,
            ret |-> normalizeHeaderKeyMapped(key, mappingLookup(columnMapping))]
  /\ UNCHANGED appVars

NextMapping ==
  \/ \E c \in {REQUIRED_COLUMNS[k] : k \in 1..Len(REQUIRED_COLUMNS)},
        value \in {<<>>} \cup {DetectedHeaders[k] : k \in 1..Len(DetectedHeaders)} :
        setColumnMapping(c, value)
  \/ AutoMap
  \/ ClearColumnMapping
  \/ \E key \in HeaderKeyInputs : CallNormalizeHeaderKey(key)

SpecMapping == Init /\ [][NextMapping]_vars

----------------------------------------------------------------------------
(* Loading a file: the row list handed to handleParsedRows, and the errors *)

CsvParseErrors == <<<<"C", "S", "V", " ", "p", "a", "r", "s", "e", " ", "e", "r", "r", "o", "r", ":", " ", "x">>>>

ExcelReadErrors == <<<<"E", "x", "c", "e", "l", " ", "r", "e", "a", "d", " ", "e", "r", "r", "o", "r">>>>

UnsupportedTypeErrors == <<<<"U", "n", "s", "u", "p", "p", "o", "r", "t", "e", "d", " ", "f", "i", "l", "e", " ", "t", "y", "p", "e", ".", " ", "U", "s", "e", " ", ".", "c", "s", "v", " ", "o", "r", " ", ".", "x", "l", "s", "x">>>>

\* The error callback of Papa.parse: setErrors([`CSV parse error: ${err.message}`])
CsvParseError ==
  /\ errors' = CsvParseErrors
  /\ UNCHANGED <<rows, countryCode, template, dedupeByPhone, autoDetectCountry, search,
                 buckets, processed, columnMapping, requested, loaderVars, batchVars, fn>>

\* reader.onerror: setErrors(['Excel read error'])
ExcelReadError ==
  /\ errors' = ExcelReadErrors
  /\ UNCHANGED <<rows, countryCode, template, dedupeByPhone, autoDetectCountry, search,
                 buckets, processed, columnMapping, requested, loaderVars, batchVars, fn>>

\* onFilesSelected with a file that is neither .csv nor .xlsx nor .xls:
\* setIsLoading(true), setErrors, setIsLoading(false)
UnsupportedFileType ==
  /\ errors' = UnsupportedTypeErrors
  /\ isLoading' = FALSE
  /\ UNCHANGED <<rows, countryCode, template, dedupeByPhone, autoDetectCountry, search,
                 buckets, processed, columnMapping, requested, pending, batchVars, fn>>

\* `Import failed: ${e.message}` with the message x
ImportFailedErrors == <<<<"I", "m", "p", "o", "r", "t", " ", "f", "a", "i", "l", "e", "d", ":", " ", "x">>>>

\* fetchCSVFromUrl when fetch, res.text or Papa.parse throws: the catch block
\* calls setErrors and nothing else.
UrlImportFailed ==
  /\ errors' = ImportFailedErrors
  /\ UNCHANGED <<rows, countryCode, template, dedupeByPhone, autoDetectCountry, search,
                 buckets, processed, columnMapping, requested, loaderVars, batchVars, fn>>

NextLoad ==
  \/ \E list \in RowLists : handleParsedRows(list)
  \/ Clear
  \/ CsvParseError
  \/ ExcelReadError
  \/ UnsupportedFileType
  \/ UrlImportFailed

SpecLoad == Init /\ [][NextLoad]_vars

----------------------------------------------------------------------------
(* The search box over loaded rows: queries that match one of two rows that
   share a phone *)

\* No query, a query only Ava matches, and one only Bo matches.
FilterQueries == {<<>>, <<"v">>, <<"Q", "A", " ">>}

NextFilter ==
  \/ \E list \in RowLists : handleParsedRows(list)
  \/ \E v \in FilterQueries : setSearch(v)
  \/ \E v \in BOOLEAN : setDedupeByPhone(v)

SpecFilter == Init /\ [][NextFilter]_vars

----------------------------------------------------------------------------
(* ensureColumns of the second App component, applied when a row is stored and
   again when the memo is recomputed, under the mapping of the panel *)

\* The loop of normalizeRowHeaders(row, mappingLookup) from entry i onwards.
RECURSIVE NormalizeEntriesMappedFrom(_, _, _, _)
NormalizeEntriesMappedFrom(row, lookup, i, normalized) ==
  IF i > Len(row) THEN normalized
  ELSE NormalizeEntriesMappedFrom(row, lookup, i + 1,
         Put(normalized, normalizeHeaderKeyMapped(row[i][1], lookup), row[i][2]))

normalizeRowHeadersMapped(row, lookup) == NormalizeEntriesMappedFrom(row, lookup, 1, <<>>)

\* ensureColumns(row, mappingLookup)
ensureColumnsMapped(row, lookup) ==
  AddMissingFrom(normalizeRowHeadersMapped(row, lookup), 1)

\* Headers of a decoded file: one that is no alias, and two that are spelled
\* like canonical keys.
MappableHeaders == {<<"E", "m", "p", " ", "N", "a", "m", "e">>, KeyName, KeyPhone}

\* The canonical keys whose select the operator uses.
MappableColumns == {KeyName, KeyPhone}

\* A decoded row: up to MaxCols columns with different headers and a text.
MappableRows ==
  {row \in SeqsUpTo(MappableHeaders \X {<<"x">>, <<"y">>}, MaxCols) :
     \A i, j \in 1..Len(row) : i # j => row[i][1] # row[j][1]}

\* handleParsedRows for one row of the list: list.map(r => ensureColumns(r,
\* mappingLookup)) is what setRows stores.
StoreEnsured(row) ==
  /\ fn' = [name |-> "stored", row |-> row,
            ret |-> ensureColumnsMapped(row, mappingLookup(columnMapping))]
  /\ UNCHANGED appVars

\* The first statement of the loop of the processed memo for the stored row:
\* const normalized = ensureColumns(r, mappingLookup)
RecomputeEnsured ==
  /\ fn.name = "stored"
  /\ fn' = [name |-> "recomputed", row |-> fn.ret,
            ret |-> ensureColumnsMapped(fn.ret, mappingLookup(columnMapping))]
  /\ UNCHANGED appVars

NextCanonical ==
  \/ \E c \in MappableColumns, value \in {<<>>} \cup MappableHeaders :
        setColumnMapping(c, value)
  \/ \E row \in MappableRows : StoreEnsured(row)
  \/ RecomputeEnsured

SpecCanonical == Init /\ [][NextCanonical]_vars

----------------------------------------------------------------------------
(* The quick fix of ten-digit phones of the second App component *)

\* fixTenDigitPhones: setRows(rows.map(...)), and the memo follows.
fixTenDigitPhones ==
  /\ rows' = [i \in 1..Len(rows) |-> FixPhone(rows[i], countryCode)]
  /\ Recompute(rows', countryCode, template, dedupeByPhone, autoDetectCountry, search)
  /\ UNCHANGED <<countryCode, template, dedupeByPhone, autoDetectCountry, search, errors,
                 columnMapping, requested, loaderVars, batchVars, fn>>

\* The decoded lists of this specification: a phone of ten digits, the same
\* number written with +91, and a phone without digits.
FixLists == SeqsUpTo({RowAva, RowBo, RowEve}, MaxRows)

NextFix ==
  \/ \E list \in FixLists : handleParsedRows(list)
  \/ \E v \in CountryCodeChoices : setCountryCode(v)
  \/ \E v \in BOOLEAN : setAutoDetectCountry(v)
  \/ \E v \in BOOLEAN : setDedupeByPhone(v)
  \/ fixTenDigitPhones

SpecFix == Init /\ [][NextFix]_vars

----------------------------------------------------------------------------
(* The batch controls of the second App component: Open N, Reset, batch size *)

MaxBatch == 2

Min(a, b) == IF a < b THEN a ELSE b

\* processed.out.slice(openIndex, openIndex + batchSize)
BatchSlice ==
  SubSeq(processed.out, openIndex + 1, Min(openIndex + batchSize, Len(processed.out)))

\* openNextBatch, behind the disabled test of its button: the links of the
\* slice are opened in new tabs and the counter moves on by the slice's length.
openNextBatch ==
  /\ ~(Len(processed.out) = 0 \/ openIndex >= Len(processed.out))
  /\ openIndex' = Min(openIndex + Len(BatchSlice), Len(processed.out))
  /\ UNCHANGED <<rows, countryCode, template, dedupeByPhone, autoDetectCountry, search,
                 buckets, processed, errors, columnMapping, requested, loaderVars,
                 batchSize, fn>>

\* resetBatch: setOpenIndex(0)
resetBatch ==
  /\ openIndex' = 0
  /\ UNCHANGED <<rows, countryCode, template, dedupeByPhone, autoDetectCountry, search,
                 buckets, processed, errors, columnMapping, requested, loaderVars,
                 batchSize, fn>>

\* The numbers the operator types into the batch size field (an empty field
\* gives Number('') = 0).
BatchSizeInputs == (0 - 1)..MaxBatch

\* onChange of the batch size field: setBatchSize(Math.max(1, Number(v) || 1))
setBatchSize(v) ==
  /\ batchSize' = (IF (IF v = 0 THEN 1 ELSE v) > 1 THEN v ELSE 1)
  /\ UNCHANGED <<rows, countryCode, template, dedupeByPhone, autoDetectCountry, search,
                 buckets, processed, errors, columnMapping, requested, loaderVars,
                 openIndex, fn>>

\* The decoded lists of this specification: rows with one phone, and a row
\* without phone.
BatchLists == SeqsUpTo({RowAva, RowBo, RowEve}, MaxRows)

NextBatch ==
  \/ \E list \in BatchLists : handleParsedRows(list)
  \/ Clear
  \/ \E v \in SearchChoices : setSearch(v)
  \/ \E v \in BOOLEAN : setDedupeByPhone(v)
  \/ openNextBatch
  \/ resetBatch
  \/ \E v \in BatchSizeInputs : setBatchSize(v)

SpecBatch == Init /\ [][NextBatch]_vars

----------------------------------------------------------------------------
(* Loading with its callbacks and timers in flight: onFilesSelected, handlePaste,
   loadSampleData and Clear of the first App component. A reader callback or a
   timer that is set stays in pending until it fires. *)

MaxPending == 2

\* What a decoder hands over: no row at all, or one row.
FileLists == {<<>>, <<RowAva>>, <<RowCy>>}

PasteLists == {<<RowAva>>, <<RowCy>>}

Callback(kind, data) == [kind |-> kind, data |-> data]

\* The delay given to setTimeout, 0 for a callback of Papa.parse or FileReader.
TimerDelay(kind) ==
  CASE kind = "sampleTimer" -> 300
    [] kind = "setRowsTimer" -> 500
    [] kind = "excelTimer" -> 800
    [] OTHER -> 0

\* pending is in the order of setting. A timer fires after every timer set
\* before it with the same or a shorter delay; a timer set before it with a
\* longer delay fires before or after it, as the times of the requests have
\* it, and a reader callback comes at any time.
CanFire(k) ==
  \A j \in 1..(k - 1) :
    \/ TimerDelay(pending[j].kind) = 0
    \/ TimerDelay(pending[k].kind) = 0
    \/ TimerDelay(pending[j].kind) > TimerDelay(pending[k].kind)

Without(k) == SubSeq(pending, 1, k - 1) \o SubSeq(pending, k + 1, Len(pending))

\* The rows a request asks for: those of its list, and for a request that
\* delivers no row (a read or parse error, a file without rows) what was asked
\* for before.
RequestedBy(list) == IF list = <<>> THEN requested ELSE MapEnsureColumns(list)

\* onFilesSelected with a .csv file: setIsLoading(true) and Papa.parse, which
\* later calls complete with the rows of the file or error.
onFilesSelectedCsv(outcome) ==
  /\ Len(pending) < MaxPending
  /\ isLoading' = TRUE
  /\ pending' = Append(pending, outcome)
  /\ requested' = RequestedBy(outcome.data)
  /\ UNCHANGED <<rows, countryCode, template, dedupeByPhone, autoDetectCountry, search,
                 buckets, processed, errors, columnMapping, batchVars, fn>>

CsvOutcomes ==
  {Callback("complete", list) : list \in FileLists} \cup {Callback("error", <<>>)}

\* onFilesSelected with an .xlsx or .xls file: setIsLoading(true) and
\* reader.readAsArrayBuffer, which later calls onload or onerror.
onFilesSelectedExcel(outcome) ==
  /\ Len(pending) < MaxPending
  /\ isLoading' = TRUE
  /\ pending' = Append(pending, outcome)
  /\ requested' = RequestedBy(outcome.data)
  /\ UNCHANGED <<rows, countryCode, template, dedupeByPhone, autoDetectCountry, search,
                 buckets, processed, errors, columnMapping, batchVars, fn>>

ExcelOutcomes ==
  {Callback("onload", list) : list \in FileLists} \cup {Callback("onerror", <<>>)}

\* handlePaste with a text of at least one row: handleParsedRows(parsed.data)
\* sets the errors at once and the rows in its timer.
handlePaste(list) ==
  /\ Len(pending) < MaxPending
  /\ list # <<>>
  /\ errors' = MissingColumnsErrors(MapEnsureColumns(list))
  /\ pending' = Append(pending, Callback("setRowsTimer", MapEnsureColumns(list)))
  /\ requested' = MapEnsureColumns(list)
  /\ UNCHANGED <<rows, countryCode, template, dedupeByPhone, autoDetectCountry, search,
                 buckets, processed, columnMapping, isLoading, batchVars, fn>>

\* loadSampleData: setTimeout(() => handleParsedRows(sample), 300)
loadSampleData ==
  /\ Len(pending) < MaxPending
  /\ pending' = Append(pending, Callback("sampleTimer", sample))
  /\ requested' = MapEnsureColumns(sample)
  /\ UNCHANGED <<rows, countryCode, template, dedupeByPhone, autoDetectCountry, search,
                 buckets, processed, errors, columnMapping, isLoading, batchVars, fn>>

\* handleParsedRows(list) called in callback k, up to its setTimeout, and
\* setIsLoading(loadingAfter) when it has returned. With an empty list it
\* throws at normalized[0] and the rest of the callback is not run.
RunHandleParsedRows(k, list, loadingAfter) ==
  IF list = <<>>
  THEN /\ pending' = Without(k)
       /\ UNCHANGED <<errors, isLoading>>
  ELSE /\ errors' = MissingColumnsErrors(MapEnsureColumns(list))
       /\ pending' = Append(Without(k), Callback("setRowsTimer", MapEnsureColumns(list)))
       /\ isLoading' = loadingAfter

\* complete: (res) => { handleParsedRows(res.data); setIsLoading(false) }
papaComplete(k) ==
  /\ pending[k].kind = "complete"
  /\ RunHandleParsedRows(k, pending[k].data, FALSE)
  /\ UNCHANGED <<rows, countryCode, template, dedupeByPhone, autoDetectCountry, search,
                 buckets, processed, columnMapping, requested, batchVars, fn>>

\* error: (err) => setErrors([`CSV parse error: ${err.message}`])
papaError(k) ==
  /\ pending[k].kind = "error"
  /\ errors' = CsvParseErrors
  /\ pending' = Without(k)
  /\ UNCHANGED <<rows, countryCode, template, dedupeByPhone, autoDetectCountry, search,
                 buckets, processed, columnMapping, requested, isLoading, batchVars, fn>>

\* reader.onload: the sheet is decoded and the timer of 800 ms is set.
readerOnload(k) ==
  /\ pending[k].kind = "onload"
  /\ pending' = Append(Without(k), Callback("excelTimer", pending[k].data))
  /\ UNCHANGED <<rows, countryCode, template, dedupeByPhone, autoDetectCountry, search,
                 buckets, processed, errors, columnMapping, requested, isLoading,
                 batchVars, fn>>

\* reader.onerror = () => setErrors(['Excel read error'])
readerOnerror(k) ==
  /\ pending[k].kind = "onerror"
  /\ errors' = ExcelReadErrors
  /\ pending' = Without(k)
  /\ UNCHANGED <<rows, countryCode, template, dedupeByPhone, autoDetectCountry, search,
                 buckets, processed, columnMapping, requested, isLoading, batchVars, fn>>

\* The timer of reader.onload:
\* handleParsedRows(json); setIsProcessing(false); setIsLoading(false)
excelTimer(k) ==
  /\ pending[k].kind = "excelTimer"
  /\ CanFire(k)
  /\ RunHandleParsedRows(k, pending[k].data, FALSE)
  /\ UNCHANGED <<rows, countryCode, template, dedupeByPhone, autoDetectCountry, search,
                 buckets, processed, columnMapping, requested, batchVars, fn>>

\* The timer of loadSampleData: handleParsedRows(sample); showToast(...)
sampleTimer(k) ==
  /\ pending[k].kind = "sampleTimer"
  /\ CanFire(k)
  /\ RunHandleParsedRows(k, pending[k].data, isLoading)
  /\ UNCHANGED <<rows, countryCode, template, dedupeByPhone, autoDetectCountry, search,
                 buckets, processed, columnMapping, requested, batchVars, fn>>

\* The timer of handleParsedRows: setRows(normalized), and the memo follows.
setRowsTimer(k) ==
  /\ pending[k].kind = "setRowsTimer"
  /\ CanFire(k)
  /\ rows' = pending[k].data
  /\ pending' = Without(k)
  /\ Recompute(rows', countryCode, template, dedupeByPhone, autoDetectCountry, search)
  /\ UNCHANGED <<countryCode, template, dedupeByPhone, autoDetectCountry, search,
                 errors, columnMapping, requested, isLoading, batchVars, fn>>

\* Callback or timer k in flight is run (the last seven disjuncts of
\* NextTimers).
FireCallback(k) ==
  \/ papaComplete(k)
  \/ papaError(k)
  \/ readerOnload(k)
  \/ readerOnerror(k)
  \/ excelTimer(k)
  \/ sampleTimer(k)
  \/ setRowsTimer(k)

\* The callback or timer that was set first of those in flight is run.
FireOldest == pending # <<>> /\ FireCallback(1)

NextTimers ==
  \/ \E outcome \in CsvOutcomes : onFilesSelectedCsv(outcome)
  \/ \E outcome \in ExcelOutcomes : onFilesSelectedExcel(outcome)
  \/ UnsupportedFileType
  \/ \E list \in PasteLists : handlePaste(list)
  \/ loadSampleData
  \/ Clear
  \/ \E k \in 1..Len(pending) : papaComplete(k)
  \/ \E k \in 1..Len(pending) : papaError(k)
  \/ \E k \in 1..Len(pending) : readerOnload(k)
  \/ \E k \in 1..Len(pending) : readerOnerror(k)
  \/ \E k \in 1..Len(pending) : excelTimer(k)
  \/ \E k \in 1..Len(pending) : sampleTimer(k)
  \/ \E k \in 1..Len(pending) : setRowsTimer(k)

SpecTimers == Init /\ [][NextTimers]_vars

\* The event loop runs every callback and timer that is due: the oldest one
\* in flight does not wait forever, and so none does.
SpecTimersFair == SpecTimers /\ WF_vars(FireOldest)

----------------------------------------------------------------------------
(* generateMessage as a pure function: rows and templates from bounded sets *)

\* A field of the row: whether the row has the key, and its value. The values
\* are plain text, text with white space around it, text that spells a
\* placeholder, and text with a dollar sign.
NameFieldChoices ==
  { <<FALSE, <<>>>>,
    <<TRUE, <<>>>>,
    <<TRUE, <<" ", "A", "v", "a", " ">>>>,
    <<TRUE, <<"A", "v", "a">>>>,
    <<TRUE, <<"$", "&">>>>,
    <<TRUE, <<"{", "R", "O", "L", "E", "}">>>> }

RoleFieldChoices ==
  { <<FALSE, <<>>>>,
    <<TRUE, <<>>>>,
    <<TRUE, <<"E", "n", "g", "i", "n", "e", "e", "r">>>>,
    <<TRUE, <<"$", GraveAccent>>>>,
    <<TRUE, <<"R", "$", "$", "D">>>> }

JdFieldChoices ==
  { <<FALSE, <<>>>>,
    <<TRUE, <<>>>>,
    <<TRUE, <<"a", ".", "c", "o">>>>,
    <<TRUE, <<"$", "'">>>> }

FieldEntry(key, choice) == IF choice[1] THEN <<<<key, choice[2]>>>> ELSE <<>>

MessageRows ==
  {FieldEntry(KeyName, n) \o FieldEntry(KeyCurrentRole, r) \o FieldEntry(KeyJDLink, j) :
     n \in NameFieldChoices, r \in RoleFieldChoices, j \in JdFieldChoices}

\* The empty template (the built-in one is used), the template of the spec's
\* scenario, one with a repeated placeholder and an unknown brace token, and
\* one with a placeholder written in lower case.
MessageTemplates ==
  { <<>>,
    <<"H", "i", " ", "{", "N", "A", "M", "E", "}", ",", " ", "r", "o", "l", "e", " ", "{", "R", "O", "L", "E", "}">>,
    <<"{", "N", "A", "M", "E", "}", "{", "N", "A", "M", "E", "}", " ", "{", "X", "}", " ", "{", "J", "D", "_", "L", "I", "N", "K", "}">>,
    <<"{", "n", "a", "m", "e", "}", " ", "{", "R", "O", "L", "E", "}", ":", " ", "{", "J", "D", "_", "L", "I", "N", "K", "}">> }

InitMessage ==
  /\ InitApp
  /\ \E row \in MessageRows, tpl \in MessageTemplates :
       fn = [name |-> "generateMessage", row |-> row, template |-> tpl,
             done |-> FALSE, ret |-> <<>>]

CallGenerateMessage ==
  /\ fn.name = "generateMessage"
  /\ ~fn.done
  /\ fn' = [fn EXCEPT !.done = TRUE, !.ret = generateMessage(fn.row, fn.template)]
  /\ UNCHANGED appVars

NextMessage == CallGenerateMessage

SpecMessage == InitMessage /\ [][NextMessage]_vars

----------------------------------------------------------------------------
(* The pipeline functions called with values of any shape: what each returns *)
(* or throws. A JavaScript value is a record of its type and of the text     *)
(* that String(value) gives; an object is a record of its entries.           *)

JsUndefined == [type |-> "undefined", text |-> <<"u", "n", "d", "e", "f", "i", "n", "e", "d">>]

JsNull == [type |-> "null", text |-> <<"n", "u", "l", "l">>]

JsNumber(text) == [type |-> "number", text |-> text]

JsString(text) == [type |-> "string", text |-> text]

JsObject(entries) == [type |-> "object", entries |-> entries]

\* A high surrogate (U+D83D) that no low surrogate follows: one code unit of a
\* string that is not well-formed UTF-16.
LoneSurrogate == "U+D83D"

\* !value
IsFalsy(value) ==
  \/ value.type \in {"undefined", "null"}
  \/ value.type = "number" /\ value.text = <<"0">>
  \/ value.type = "string" /\ value.text = <<>>

\* value == null (the test of ?. and of ??)
IsNullish(value) == value.type \in {"undefined", "null"}

Returns(value) == [threw |-> FALSE, error |-> "", value |-> value]

Throws(error) == [threw |-> TRUE, error |-> error, value |-> <<>>]

\* cleanPhone(raw, countryCode, autoDetectCountry): `if (!raw) return ''`,
\* String(raw), String(countryCode || '')
cleanPhoneCall(raw, cc, autoDetect) ==
  IF IsFalsy(raw) THEN Returns(<<>>)
  ELSE Returns(cleanPhone(raw.text, IF IsFalsy(cc) THEN <<>> ELSE cc.text, autoDetect))

\* normalizeUrlMaybe(urlLike): (urlLike ?? '').toString().trim()
normalizeUrlMaybeCall(urlLike) ==
  Returns(normalizeUrlMaybe(IF IsNullish(urlLike) THEN <<>> ELSE urlLike.text))

\* encodeURIComponent(text) throws a URIError when String(text) holds a
\* surrogate without its pair.
encodeForWhatsAppCall(text) ==
  IF \E i \in 1..Len(text.text) : text.text[i] = LoneSurrogate
  THEN Throws("URIError")
  ELSE Returns(encodeForWhatsApp(text.text))

\* ensureColumns(row): { ...row } is the empty object for undefined, null and
\* a number; the keys it adds have the value ''.
ensureColumnsCall(row) ==
  LET entries == IF row.type = "object" THEN row.entries ELSE <<>>
      normalized == normalizeRowHeaders(entries)
      ensured == ensureColumns(entries)
  IN  Returns([i \in 1..Len(ensured) |->
                 IF Has(normalized, ensured[i][1]) THEN ensured[i]
                 ELSE <<ensured[i][1], JsString(<<>>)>>])

\* row[key]?.toString().trim() || '' for a row that is not null or undefined
FieldTextOf(row, key) ==
  IF row.type # "object" \/ ~Has(row.entries, key) THEN <<>>
  ELSE IF IsNullish(Get(row.entries, key)) THEN <<>>
  ELSE Trim(Get(row.entries, key).text)

\* generateMessage(row, template): row['Name'] throws a TypeError when row is
\* null or undefined; safe.replaceAll is not a function when the template is
\* a truthy value that is not a string.
generateMessageCall(row, tpl) ==
  IF IsNullish(row) THEN Throws("TypeError")
  ELSE IF ~IsFalsy(tpl) /\ tpl.type # "string" THEN Throws("TypeError")
  ELSE Returns(fillTemplate(IF IsFalsy(tpl) THEN <<>> ELSE tpl.text,
                            FieldTextOf(row, KeyName), FieldTextOf(row, KeyCurrentRole),
                            FieldTextOf(row, KeyJDLink)))

\* One iteration of the loop of processed, up to the link of its record: the
\* empty link of a row without phone, or the link built from the message.
processedRowCall(r, cc, tpl, autoDetect) ==
  LET normalized == ensureColumnsCall(r).value
      phone == cleanPhoneCall(Get(normalized, KeyPhone), cc, autoDetect).value
      jdNorm == normalizeUrlMaybeCall(Get(normalized, KeyJDLink)).value
      message == generateMessageCall(
                   JsObject(Put(normalized, KeyJDLink, JsString(jdNorm))), tpl)
      encoded == encodeForWhatsAppCall(JsString(message.value))
  IN  IF phone = <<>> THEN Returns(<<>>)
      ELSE IF message.threw THEN message
      ELSE IF encoded.threw THEN encoded
      ELSE Returns(WaMePrefix \o phone \o TextParam \o encoded.value)

\* Values of every shape: undefined, null, numbers, the empty string, text
\* with white space, and text that is not well-formed.
ShapeValues ==
  { JsUndefined, JsNull, JsNumber(<<"0">>), JsNumber(<<"9", "8", "7", "6", "5", "4", "3", "2", "1", "0">>),
    JsString(<<>>), JsString(<<" ", "a", " ", "b", " ">>), JsString(<<"A", LoneSurrogate>>) }

\* Rows of every shape: undefined, null, a number, the empty object, and
\* objects with a Name of every shape and a Phone that is a number or null.
ShapeRows ==
  { JsUndefined, JsNull, JsNumber(<<"0">>), JsObject(<<>>) }
    \cup { JsObject(<<<<KeyName, n>>, <<KeyPhone, ph>>>>) :
             n \in ShapeValues, ph \in {JsNumber(<<"9", "8", "7", "6", "5", "4", "3", "2", "1", "0">>), JsNull} }

ShapeTemplates ==
  { JsUndefined, JsString(<<>>), JsNumber(<<"5">>),
    JsString(<<"H", "i", " ", "{", "N", "A", "M", "E", "}">>),
    JsString(<<"H", "i", LoneSurrogate>>) }

NotCalled == Returns(<<>>)

InitShapes ==
  /\ InitApp
  /\ \/ \E raw \in ShapeValues, cc \in ShapeValues, auto \in BOOLEAN :
          fn = [name |-> "call", function |-> "cleanPhone", args |-> <<raw, cc, auto>>,
                done |-> FALSE, outcome |-> NotCalled]
     \/ \E urlLike \in ShapeValues :
          fn = [name |-> "call", function |-> "normalizeUrlMaybe", args |-> <<urlLike>>,
                done |-> FALSE, outcome |-> NotCalled]
     \/ \E text \in ShapeValues :
          fn = [name |-> "call", function |-> "encodeForWhatsApp", args |-> <<text>>,
                done |-> FALSE, outcome |-> NotCalled]
     \/ \E row \in ShapeRows :
          fn = [name |-> "call", function |-> "ensureColumns", args |-> <<row>>,
                done |-> FALSE, outcome |-> NotCalled]
     \/ \E row \in ShapeRows, tpl \in ShapeTemplates :
          fn = [name |-> "call", function |-> "generateMessage", args |-> <<row, tpl>>,
                done |-> FALSE, outcome |-> NotCalled]
     \/ \E r \in ShapeRows, cc \in {JsString(<<"9", "1">>), JsUndefined},
           tpl \in ShapeTemplates, auto \in BOOLEAN :
          fn = [name |-> "call", function |-> "processed", args |-> <<r, cc, tpl, auto>>,
                done |-> FALSE, outcome |-> NotCalled]

Pending(function) == fn.name = "call" /\ fn.function = function /\ ~fn.done

CallCleanPhoneShaped ==
  /\ Pending("cleanPhone")
  /\ fn' = [fn EXCEPT !.done = TRUE,
                      !.outcome = cleanPhoneCall(fn.args[1], fn.args[2], fn.args[3])]
  /\ UNCHANGED appVars

CallNormalizeUrlMaybeShaped ==
  /\ Pending("normalizeUrlMaybe")
  /\ fn' = [fn EXCEPT !.done = TRUE, !.outcome = normalizeUrlMaybeCall(fn.args[1])]
  /\ UNCHANGED appVars

CallEncodeForWhatsAppShaped ==
  /\ Pending("encodeForWhatsApp")
  /\ fn' = [fn EXCEPT !.done = TRUE, !.outcome = encodeForWhatsAppCall(fn.args[1])]
  /\ UNCHANGED appVars

CallEnsureColumnsShaped ==
  /\ Pending("ensureColumns")
  /\ fn' = [fn EXCEPT !.done = TRUE, !.outcome = ensureColumnsCall(fn.args[1])]
  /\ UNCHANGED appVars

CallGenerateMessageShaped ==
  /\ Pending("generateMessage")
  /\ fn' = [fn EXCEPT !.done = TRUE,
                      !.outcome = generateMessageCall(fn.args[1], fn.args[2])]
  /\ UNCHANGED appVars

CallProcessedRowShaped ==
  /\ Pending("processed")
  /\ fn' = [fn EXCEPT !.done = TRUE,
                      !.outcome = processedRowCall(fn.args[1], fn.args[2], fn.args[3],
                                                   fn.args[4])]
  /\ UNCHANGED appVars

NextShapes ==
  \/ CallCleanPhoneShaped
  \/ CallNormalizeUrlMaybeShaped
  \/ CallEncodeForWhatsAppShaped
  \/ CallEnsureColumnsShaped
  \/ CallGenerateMessageShaped
  \/ CallProcessedRowShaped

SpecShapes == InitShapes /\ [][NextShapes]_vars

----------------------------------------------------------------------------
(* Claims about cleanPhone (checked under SpecPhone) *)

PhoneReturned == fn.name = "cleanPhone" /\ fn.done

RawDigits == StripNonDigits(fn.raw)

\* C1: a raw value with fewer than 10 digits (for every countryCode and
\* autoDetect setting) normalizes to the empty string.
C1_ShortPhoneIsEmpty ==
  (PhoneReturned /\ Len(RawDigits) < 10) => fn.ret = <<>>

\* C2: the NormalizedPhone is empty, or digits only with a total length of 11 to
\* 13 (a country code of 1 to 3 digits plus 10 digits).
C2_PhoneShape ==
  PhoneReturned =>
    \/ fn.ret = <<>>
    \/ /\ \A i \in 1..Len(fn.ret) : fn.ret[i] \in DigitChars
       /\ Len(fn.ret) \in 11..13

\* C3: for an input with 10 or more digits the result ends in exactly the last
\* 10 digits of the input, for every countryCode and autoDetect setting.
C3_EndsWithLast10 ==
  (PhoneReturned /\ Len(RawDigits) >= 10) =>
    /\ Len(fn.ret) >= 10
    /\ \A i \in 1..10 :
         fn.ret[Len(fn.ret) - 10 + i] = RawDigits[Len(RawDigits) - 10 + i]

\* A call with 12 digits and autoDetect off: the configured code is prepended
\* to the last 10 digits and the two leading digits are discarded.
C3_Witness ==
  /\ PhoneReturned
  /\ Len(RawDigits) = 12
  /\ ~fn.autoDetectCountry
  /\ fn.ret = EffectiveCountryCode(fn.countryCode) \o SubSeq(RawDigits, 3, 12)

----------------------------------------------------------------------------
(* Claims about encodeForWhatsApp (checked under SpecEncode) *)

\* Standard percent-decoding of a well-formed encoding: %XX back to its character.
RECURSIVE decodeURIComponent(_)
decodeURIComponent(s) ==
  IF s = <<>> THEN <<>>
  ELSE IF s[1] = "%" /\ Len(s) >= 3
          /\ \E c \in DOMAIN PercentCode : PercentCode[c] = SubSeq(s, 1, 3)
       THEN <<CHOOSE c \in DOMAIN PercentCode : PercentCode[c] = SubSeq(s, 1, 3)>>
            \o decodeURIComponent(SubSeq(s, 4, Len(s)))
       ELSE <<s[1]>> \o decodeURIComponent(Tail(s))

EncodeReturned == fn.name = "encodeForWhatsApp" /\ fn.done

\* C4: percent-decoding the encoded text parameter yields exactly the original
\* message, for every message (newlines, spaces, '*', backslash followed by n).
C4_RoundTrip ==
  EncodeReturned => decodeURIComponent(fn.ret) = fn.text

----------------------------------------------------------------------------
(* Claims about normalizeUrlMaybe (checked under SpecUrl) *)

UrlReturned == fn.name = "normalizeUrlMaybe" /\ fn.done

HasWhitespace(s) == \E i \in 1..Len(s) : s[i] \in WhitespaceChars

\* C6: normalizeUrlMaybe is idempotent: normalizing a NormalizedLink again
\* returns it unchanged.
C6_Idempotent ==
  UrlReturned => normalizeUrlMaybe(fn.ret) = fn.ret

\* A value without a scheme and with inner white space: the first application
\* removed the white space and prepended https://.
C6_Witness ==
  /\ UrlReturned
  /\ HasWhitespace(Trim(fn.urlLike))
  /\ ~HasHttpScheme(RemoveWhitespace(fn.urlLike))
  /\ fn.ret = HttpsScheme \o RemoveWhitespace(fn.urlLike)

\* C7 as stated: the NormalizedLink is empty, or begins with 'http://' or
\* 'https://' (in these letters) and holds no white space.
C7_LowercaseScheme ==
  UrlReturned =>
    \/ fn.ret = <<>>
    \/ /\ StartsWith(fn.ret, HttpScheme) \/ StartsWith(fn.ret, HttpsScheme)
       /\ ~HasWhitespace(fn.ret)

\* C7 amended: the NormalizedLink is empty, or begins with http:// or https://
\* compared without regard to letter case (a scheme the input wrote in upper or
\* mixed case is kept as written) and holds no white space.
C7_SchemeAnyCase ==
  UrlReturned =>
    \/ fn.ret = <<>>
    \/ /\ \/ StartsWith(ToLowerCase(fn.ret), HttpScheme)
          \/ StartsWith(ToLowerCase(fn.ret), HttpsScheme)
       /\ ~HasWhitespace(fn.ret)

\* An input with an upper-case scheme and inner white space: it is returned
\* with the scheme as written and the white space removed.
C7_Witness ==
  /\ UrlReturned
  /\ HasWhitespace(Trim(fn.urlLike))
  /\ StartsWith(fn.ret, <<"H", "T", "T", "P", ":", "/", "/">>)
  /\ fn.ret = RemoveWhitespace(fn.urlLike)

----------------------------------------------------------------------------
(* Claims about the processed memo (checked under Spec) *)

\* What the loop computes from stored row i under the current settings.
RowFacts(i) == RowResultOf[rows[i], countryCode, template, autoDetectCountry]

RowIndexes == 1..Len(rows)

\* The records of all three buckets, before the search filter.
BucketRecords ==
  {buckets.out[k] : k \in 1..Len(buckets.out)}
    \cup {buckets.missing[k] : k \in 1..Len(buckets.missing)}
    \cup {buckets.invalid[k] : k \in 1..Len(buckets.invalid)}

\* The text parameter of a link: what follows https://wa.me/<phone>?text=
TextOf(link, phone) ==
  SubSeq(link, Len(WaMePrefix) + Len(phone) + Len(TextParam) + 1, Len(link))

\* The message with each backslash-n pair written as a line break.
WithLineBreaks(message) == ReplaceAll(message, <<"\\", "n">>, <<"\n">>)

\* C5: the MessageLink is empty when the NormalizedPhone is empty; otherwise it
\* is https://wa.me/ + phone + ?text= + the encoded message, in which no space or
\* newline is left raw: every newline is written %0A and every space %20 (so
\* that decoding the text gives back the message's characters).
C5_LinkShape ==
  \A r \in BucketRecords :
    IF r.Phone = <<>> THEN r.WhatsApp_Link = <<>>
    ELSE \E i \in RowIndexes :
           /\ RowFacts(i).phone = r.Phone
           /\ RowFacts(i).unlinked = [r EXCEPT !.WhatsApp_Link = <<>>]
           /\ StartsWith(r.WhatsApp_Link, WaMePrefix \o r.Phone \o TextParam)
           /\ ~HasWhitespace(TextOf(r.WhatsApp_Link, r.Phone))
           /\ decodeURIComponent(TextOf(r.WhatsApp_Link, r.Phone))
                = WithLineBreaks(RowFacts(i).message)

\* A usable record whose message holds a newline and a space, next to an
\* invalid-phone record with its empty link.
C5_Witness ==
  /\ \E k \in 1..Len(buckets.out), i \in RowIndexes :
       /\ RowFacts(i).record = buckets.out[k]
       /\ "\n" \in {RowFacts(i).message[n] : n \in 1..Len(RowFacts(i).message)}
       /\ " " \in {RowFacts(i).message[n] : n \in 1..Len(RowFacts(i).message)}
       /\ Includes(buckets.out[k].WhatsApp_Link, <<"%", "0", "A">>)
       /\ Includes(buckets.out[k].WhatsApp_Link, <<"%", "2", "0">>)
  /\ \E k \in 1..Len(buckets.invalid) : buckets.invalid[k].WhatsApp_Link = <<>>

\* C8: with dedupeByPhone enabled the usable bucket (before the search filter)
\* never holds two records with the same NormalizedPhone.
C8_NoDuplicatePhone ==
  dedupeByPhone =>
    \A j, k \in 1..Len(buckets.out) :
      j # k => buckets.out[j].Phone # buckets.out[k].Phone

\* Two stored rows share a NormalizedPhone, dedup is on, and one of them is usable.
C8_Witness ==
  /\ dedupeByPhone
  /\ \E i, j \in RowIndexes :
       i < j /\ RowFacts(i).phone # <<>> /\ RowFacts(i).phone = RowFacts(j).phone
  /\ Len(buckets.out) = 1

\* The rows the dedup keeps: those with no phone, and the first row of each phone.
KeptRows ==
  {i \in RowIndexes :
     \/ RowFacts(i).phone = <<>>
     \/ ~\E j \in RowIndexes : j < i /\ RowFacts(j).phone = RowFacts(i).phone}

\* The record a kept row contributes: with its link when it has a phone.
Contribution(i) ==
  IF RowFacts(i).phone = <<>> THEN RowFacts(i).unlinked ELSE RowFacts(i).record

\* The contributions of the rows of I from row i onwards, in input order.
RECURSIVE ContributionsFrom(_, _)
ContributionsFrom(I, i) ==
  IF i > Len(rows) THEN <<>>
  ELSE (IF i \in I THEN <<Contribution(i)>> ELSE <<>>) \o ContributionsFrom(I, i + 1)

\* C9: with dedupeByPhone enabled, among rows that share a NormalizedPhone the
\* usable bucket keeps the first in input order, and every later one is in no
\* bucket at all, the missing-secondary-link bucket included.
C9_FirstKeptLaterDropped ==
  dedupeByPhone =>
    /\ buckets.out
         = ContributionsFrom({i \in KeptRows : RowFacts(i).phone # <<>>}, 1)
    /\ buckets.missing
         = ContributionsFrom({i \in KeptRows : RowFacts(i).jdNorm = <<>>}, 1)
    /\ buckets.invalid
         = ContributionsFrom({i \in KeptRows : RowFacts(i).phone = <<>>}, 1)

\* Dedup is on and the later of two rows with one phone has no link: it is
\* neither usable nor in the missing bucket, which stays empty.
C9_Witness ==
  /\ dedupeByPhone
  /\ \E i, j \in RowIndexes :
       /\ i < j
       /\ RowFacts(i).phone # <<>>
       /\ RowFacts(i).phone = RowFacts(j).phone
       /\ RowFacts(i).jdNorm # <<>>
       /\ RowFacts(j).jdNorm = <<>>
       /\ buckets.out = <<RowFacts(i).record>>
  /\ buckets.missing = <<>>

\* C10: every usable record has a non-empty MessageLink and a non-empty
\* NormalizedPhone; every invalid-phone record has both empty (before and after
\* the search filter).
C10_LinkMatchesBucket ==
  \A b \in {buckets, processed} :
    /\ \A k \in 1..Len(b.out) :
         b.out[k].WhatsApp_Link # <<>> /\ b.out[k].Phone # <<>>
    /\ \A k \in 1..Len(b.invalid) :
         b.invalid[k].WhatsApp_Link = <<>> /\ b.invalid[k].Phone = <<>>

\* Both buckets hold a record.
C10_Witness ==
  /\ Len(buckets.out) > 0
  /\ Len(buckets.invalid) > 0
  /\ Len(processed.out) > 0
  /\ Len(processed.invalid) > 0

\* The records of a bucket, as a set.
Elems(bucket) == {bucket[k] : k \in 1..Len(bucket)}

\* C11: a record is in the missing-secondary-link bucket exactly when its
\* NormalizedLink is empty and it is in the usable or in the invalid-phone
\* bucket (before and after the search filter).
C11_MissingIffNoLink ==
  \A b \in {buckets, processed} :
    Elems(b.missing)
      = {r \in Elems(b.out) \cup Elems(b.invalid) : r["JD Link"] = <<>>}

\* A usable record without link is in usable and missing, an invalid-phone
\* record without link is in invalid and missing, and the missing bucket holds
\* these two records.
C11_Witness ==
  /\ Len(buckets.missing) = 2
  /\ \E r \in Elems(buckets.out) :
       r["JD Link"] = <<>> /\ r \in Elems(buckets.missing)
  /\ \E r \in Elems(buckets.invalid) :
       r["JD Link"] = <<>> /\ r \in Elems(buckets.missing)

\* The rows that reach a bucket under the current dedup setting.
ClassifiedRows == IF dedupeByPhone THEN KeptRows ELSE RowIndexes

\* C12: each of the three buckets lists its records in the order of the input
\* rows they came from: before the search filter a bucket is the sequence of
\* the contributions of increasing row indexes, and after the filter it is
\* such a sequence over a subset of these indexes.
C12_InputOrder ==
  \A name \in {"out", "missing", "invalid"} :
    \E I \in SUBSET ClassifiedRows :
      /\ buckets[name] = ContributionsFrom(I, 1)
      /\ \E J \in SUBSET I : processed[name] = ContributionsFrom(J, 1)

\* Dedup is off, a query is set, and the usable bucket shows the different
\* records of two rows, the record of the first row first.
C12_Witness ==
  /\ ~dedupeByPhone
  /\ Trim(search) # <<>>
  /\ Len(rows) = 2
  /\ Contribution(1) # Contribution(2)
  /\ processed.out = <<Contribution(1), Contribution(2)>>

\* s contains q as a substring when letter case is disregarded.
ContainsIgnoringCase(s, q) ==
  \E k \in 0..(Len(s) - Len(q)) :
    \A n \in 1..Len(q) : ToLowerChar(s[k + n]) = ToLowerChar(q[n])

\* The records of a bucket whose Name or Current Role contains q.
RecordsContaining(bucket, q) ==
  LET Hit(r) == ContainsIgnoringCase(r["Name"], q)
                  \/ ContainsIgnoringCase(r["Current Role"], q)
  IN  SelectSeq(bucket, Hit)

\* C13 as stated: the filter keeps exactly the records whose Name or Current
\* Role contains the query as typed, letter case disregarded.
C13_KeepsQueryAsTyped ==
  \A name \in {"out", "missing", "invalid"} :
    processed[name] = RecordsContaining(buckets[name], search)

\* C13 amended: the filter keeps exactly the records whose Name or Current Role
\* contains the query without its leading and trailing white space, letter case
\* disregarded; a query that is empty after trimming leaves each bucket
\* unchanged (same elements, same order).
C13_KeepsTrimmedQuery ==
  \A name \in {"out", "missing", "invalid"} :
    /\ processed[name] = RecordsContaining(buckets[name], Trim(search))
    /\ Trim(search) = <<>> => processed[name] = buckets[name]

\* A query is set and of two invalid-phone records the filter keeps the one
\* whose Current Role, not its Name, contains the query.
C13_Witness ==
  /\ Trim(search) # <<>>
  /\ Len(buckets.invalid) = 2
  /\ Len(processed.invalid) = 1
  /\ ~ContainsIgnoringCase(processed.invalid[1]["Name"], Trim(search))
  /\ ContainsIgnoringCase(processed.invalid[1]["Current Role"], Trim(search))

----------------------------------------------------------------------------
(* Claims about header canonicalization (checked under SpecHeaders) *)

ColumnsReturned == fn.name = "ensureColumns" /\ fn.done

\* The raw header is an alias: its compact form is a key of the alias table.
IsAlias(header) == \E a \in 1..Len(HEADER_ALIASES) : HEADER_ALIASES[a][1] = Compact(header)

\* The canonical key the alias table gives for an alias header.
CanonicalOf(header) ==
  HEADER_ALIASES[CHOOSE a \in 1..Len(HEADER_ALIASES) :
                   HEADER_ALIASES[a][1] = Compact(header)][2]

\* The value stored under key, or "absent".
StoredUnder(obj, key) == IF Has(obj, key) THEN Get(obj, key) ELSE "absent"

\* C14 as stated: the value of every column whose header is an alias is stored
\* under the canonical key of the alias.
C14_EveryAliasStored ==
  ColumnsReturned =>
    \A i \in 1..Len(fn.row) :
      IsAlias(fn.row[i][1])
        => StoredUnder(fn.ret, CanonicalOf(fn.row[i][1])) = fn.row[i][2]

\* C14 amended: the value of a column whose header is an alias is stored under
\* the canonical key of the alias, unless a later column of the row has a
\* header with the same canonical key: of such columns the last one is stored.
C14_LastAliasStored ==
  ColumnsReturned =>
    \A i \in 1..Len(fn.row) :
      (/\ IsAlias(fn.row[i][1])
       /\ \A j \in (i + 1)..Len(fn.row) :
            IsAlias(fn.row[j][1])
              => CanonicalOf(fn.row[j][1]) # CanonicalOf(fn.row[i][1]))
        => StoredUnder(fn.ret, CanonicalOf(fn.row[i][1])) = fn.row[i][2]

\* A row with two alias headers of Name and different values: the value of the
\* later column is stored under Name.
C14_Witness ==
  /\ ColumnsReturned
  /\ Len(fn.row) = 2
  /\ IsAlias(fn.row[1][1]) /\ IsAlias(fn.row[2][1])
  /\ CanonicalOf(fn.row[1][1]) = KeyName /\ CanonicalOf(fn.row[2][1]) = KeyName
  /\ fn.row[1][1] # KeyName /\ fn.row[2][1] # KeyName
  /\ fn.row[1][2] # fn.row[2][2]
  /\ Get(fn.ret, KeyName) = fn.row[2][2]

RequiredKeys == {REQUIRED_COLUMNS[k] : k \in 1..Len(REQUIRED_COLUMNS)}

\* The canonical keys that no column of the raw row is stored under.
AbsentKeys ==
  {key \in RequiredKeys :
     \A i \in 1..Len(fn.row) : ~(IsAlias(fn.row[i][1]) /\ CanonicalOf(fn.row[i][1]) = key)}

----------------------------------------------------------------------------
(* Claims about the column mapping (checked under SpecMapping) *)

HeaderKeyReturned == fn.name = "normalizeHeaderKey"

\* The entries of the mapping that choose a header with the compact form of
\* the raw header of the call.
ChosenFor ==
  {e \in 1..Len(columnMapping) :
     columnMapping[e][2] # <<>> /\ Compact(columnMapping[e][2]) = Compact(fn.key)}

\* C15 as stated: whenever the mapping assigns a canonical key to a header, a
\* raw header with that compact form is mapped to that canonical key, whatever
\* the alias table says.
C15_EveryMappingWins ==
  HeaderKeyReturned => \A e \in ChosenFor : fn.ret = columnMapping[e][1]

\* C15 amended: a raw header whose compact form is chosen in the mapping is
\* mapped to the canonical key of the last entry of the mapping that chooses
\* it, whatever the alias table says; an entry overridden by a later entry
\* with the same compact form has no effect.
C15_LastMappingWins ==
  HeaderKeyReturned =>
    \A e \in ChosenFor :
      (\A later \in ChosenFor : later <= e) => fn.ret = columnMapping[e][1]

\* The mapping chooses for Name a header that the alias table maps to Current
\* Role, and a raw header with its compact form, spelled differently, is
\* mapped to Name.
C15_Witness ==
  /\ HeaderKeyReturned
  /\ \E e \in ChosenFor :
       /\ columnMapping[e][1] = KeyName
       /\ columnMapping[e][2] # fn.key
  /\ Get(HEADER_ALIASES, Compact(fn.key)) = KeyCurrentRole
  /\ fn.ret = KeyName

----------------------------------------------------------------------------
(* Claims about loading a row list (checked under SpecLoad) *)

\* The canonical keys that the first row of list lacks after header
\* canonicalization.
MissingAfterCanonicalization(list) ==
  {c \in {REQUIRED_COLUMNS[k] : k \in 1..Len(REQUIRED_COLUMNS)} :
     ~Has(normalizeRowHeaders(list[1]), c)}

\* C17: when handleParsedRows is given a list whose first row, after header
\* canonicalization, lacks required columns, it sets one error message that
\* names exactly the missing canonical keys; when none is missing it clears
\* the errors.
C17_ErrorListsMissing ==
  [][\A list \in RowLists :
       handleParsedRows(list) =>
         IF MissingAfterCanonicalization(list) = {}
         THEN errors' = <<>>
         ELSE /\ Len(errors') = 1
              /\ \A c \in {REQUIRED_COLUMNS[k] : k \in 1..Len(REQUIRED_COLUMNS)} :
                   Includes(errors'[1], c) <=> c \in MissingAfterCanonicalization(list)]_vars

----------------------------------------------------------------------------
(* Claims about generateMessage (checked under SpecMessage) *)

MessageReturned == fn.name = "generateMessage" /\ fn.done

\* The trimmed value of a field of the row of the call, empty when the row
\* lacks the field.
TrimmedField(key) == IF Has(fn.row, key) THEN Trim(Get(fn.row, key)) ELSE <<>>

\* The template that is rendered: the built-in one for an empty template.
RenderedTemplate == IF fn.template = <<>> THEN DEFAULT_TEMPLATE ELSE fn.template

\* Rendering in one pass from left to right: each occurrence of a known
\* placeholder is replaced by its value as it is, every other character of
\* the template is copied.
RECURSIVE Render(_, _, _, _)
Render(tpl, name, role, jd) ==
  IF tpl = <<>> THEN <<>>
  ELSE IF StartsWith(tpl, PlaceholderName)
  THEN name \o Render(SubSeq(tpl, Len(PlaceholderName) + 1, Len(tpl)), name, role, jd)
  ELSE IF StartsWith(tpl, PlaceholderRole)
  THEN role \o Render(SubSeq(tpl, Len(PlaceholderRole) + 1, Len(tpl)), name, role, jd)
  ELSE IF StartsWith(tpl, PlaceholderJdLink)
  THEN jd \o Render(SubSeq(tpl, Len(PlaceholderJdLink) + 1, Len(tpl)), name, role, jd)
  ELSE <<tpl[1]>> \o Render(Tail(tpl), name, role, jd)

\* The value holds neither a dollar sign nor an opening brace.
IsPlainText(value) == \A i \in 1..Len(value) : value[i] \notin {"$", "{"}

FieldKeys == {KeyName, KeyCurrentRole, KeyJDLink}

\* C18: when a field of the row is missing or empty (and the other values are
\* plain text), every occurrence of its placeholder is replaced by the empty
\* string, never left as placeholder text or written "undefined", and every
\* other brace token of the template is copied as it is.
C18_EmptyFieldRendersEmpty ==
  (/\ MessageReturned
   /\ \E key \in FieldKeys : TrimmedField(key) = <<>>
   /\ \A key \in FieldKeys : IsPlainText(TrimmedField(key)))
    => fn.ret = Render(RenderedTemplate, TrimmedField(KeyName),
                       TrimmedField(KeyCurrentRole), TrimmedField(KeyJDLink))

\* A row without Name and with a role, rendered with the template that holds
\* {NAME} twice and the unknown token {X}: the token is in the message, the
\* placeholder is not, and nothing precedes the blank before the token.
C18_Witness ==
  /\ MessageReturned
  /\ ~Has(fn.row, KeyName)
  /\ TrimmedField(KeyCurrentRole) # <<>>
  /\ TrimmedField(KeyJDLink) = <<"a", ".", "c", "o">>
  /\ Includes(fn.template, PlaceholderName \o PlaceholderName)
  /\ fn.ret = <<" ", "{", "X", "}", " ", "a", ".", "c", "o">>

\* C19: the message is the template with every occurrence of {NAME}, {ROLE}
\* and {JD_LINK} replaced by exactly the trimmed Name, Current Role and link
\* value, inserted as they are: no character of a value is read as a
\* placeholder or as a replacement pattern.
C19_ValuesInsertedLiterally ==
  MessageReturned
    => fn.ret = Render(RenderedTemplate, TrimmedField(KeyName),
                       TrimmedField(KeyCurrentRole), TrimmedField(KeyJDLink))

----------------------------------------------------------------------------
(* Claims about the pipeline functions on values of any shape (SpecShapes) *)

\* C20: every pipeline function returns a result and never throws, for an
\* argument of any shape: the empty string, null, undefined, a value that is
\* not a string, and text that is not well-formed.
C20_NeverThrows ==
  (fn.name = "call" /\ fn.done) => ~fn.outcome.threw

----------------------------------------------------------------------------
(* Further claims about cleanPhone (checked under SpecPhone) *)

AllDigits(str) == \A i \in 1..Len(str) : str[i] \in DigitChars

\* The call has a 10-digit local number as raw value and a configured country
\* code of digits.
LocalNumberCall ==
  /\ PhoneReturned
  /\ Len(fn.raw) = 10 /\ AllDigits(fn.raw)
  /\ fn.countryCode # <<>> /\ AllDigits(fn.countryCode)

\* The usable bucket after the loop has seen two rows with these phones, in
\* this order, with dedupeByPhone on.
UsableOfPair(phone1, phone2) ==
  ProcessRow(
    ProcessRow([out |-> <<>>, missing |-> <<>>, invalid |-> <<>>, seenPhones |-> {}],
               [phone |-> phone1, jdNorm |-> <<"x">>, record |-> <<1, phone1>>,
                unlinked |-> <<1, <<>>>>], TRUE),
    [phone |-> phone2, jdNorm |-> <<"x">>, record |-> <<2, phone2>>,
     unlinked |-> <<2, <<>>>>], TRUE).out

\* C21: for a 10-digit local number d and a configured country code c of
\* digits, the phone d and the phone + c d both normalize to c d under either
\* autoDetect setting, and of two rows with these phones the loop with dedup
\* on keeps only the first in the usable bucket.
C21_LocalAndInternationalAgree ==
  LocalNumberCall =>
    LET international == <<"+">> \o fn.countryCode \o fn.raw
        other == cleanPhone(international, fn.countryCode, fn.autoDetectCountry)
    IN  /\ fn.ret = fn.countryCode \o fn.raw
        /\ other = fn.countryCode \o fn.raw
        /\ UsableOfPair(fn.ret, other) = <<<<1, fn.ret>>>>
        /\ UsableOfPair(other, fn.ret) = <<<<1, other>>>>

\* A 10-digit local number normalized with a configured code other than 91,
\* with autoDetect on.
C21_Witness ==
  /\ LocalNumberCall
  /\ fn.autoDetectCountry
  /\ fn.countryCode = <<"1", "2", "3", "4">>
  /\ fn.ret = <<"1", "2", "3", "4">> \o fn.raw

\* The configured country code without its non-digits, 91 when nothing is left.
ConfiguredPrefix ==
  IF \E i \in 1..Len(fn.countryCode) : fn.countryCode[i] \in DigitChars
  THEN StripNonDigits(fn.countryCode)
  ELSE <<"9", "1">>

\* C23: for an input with at least 10 digits, when autoDetect is true and the
\* input has more than 10 digits the result is the whole digit string and the
\* configured country code is ignored; otherwise it is the digit-stripped
\* country code (91 when that is blank or has no digit) followed by the last
\* 10 digits.
C23_PrefixChoice ==
  (PhoneReturned /\ Len(RawDigits) >= 10) =>
    IF fn.autoDetectCountry /\ Len(RawDigits) > 10
    THEN fn.ret = RawDigits
    ELSE fn.ret = ConfiguredPrefix
                    \o SubSeq(RawDigits, Len(RawDigits) - 9, Len(RawDigits))

\* An input with 13 digits, autoDetect on and a configured code that differs
\* from its leading digits: the result is the 13 digits.
C23_Witness ==
  /\ PhoneReturned
  /\ fn.autoDetectCountry
  /\ Len(RawDigits) = 13
  /\ fn.countryCode = <<"1", "2", "3", "4">>
  /\ fn.ret = RawDigits

----------------------------------------------------------------------------
(* Further claims about the processed memo (checked under Spec) *)

\* The rows the dedup drops: later rows of a phone that an earlier row has.
DroppedRows == IF dedupeByPhone THEN RowIndexes \ KeptRows ELSE {}

\* C29: before the search filter every input row is accounted for exactly
\* once: the usable bucket has one record per row with a phone that is not
\* dropped, the invalid-phone bucket one per row without phone, no record is
\* in both, and the sizes of usable and invalid-phone and the number of
\* dropped duplicates add up to the number of rows (nothing is dropped with
\* dedupeByPhone off).
C29_EveryRowOnce ==
  /\ Len(buckets.out)
       = Cardinality({i \in RowIndexes \ DroppedRows : RowFacts(i).phone # <<>>})
  /\ Len(buckets.invalid)
       = Cardinality({i \in RowIndexes : RowFacts(i).phone = <<>>})
  /\ Elems(buckets.out) \cap Elems(buckets.invalid) = {}
  /\ Len(buckets.out) + Len(buckets.invalid) + Cardinality(DroppedRows) = Len(rows)
  /\ ~dedupeByPhone => Len(buckets.out) + Len(buckets.invalid) = Len(rows)

\* Dedup is off and two rows with one phone are loaded: both are usable
\* records and nothing is dropped.
C29_Witness ==
  /\ ~dedupeByPhone
  /\ Len(rows) = 2
  /\ RowFacts(1).phone # <<>>
  /\ RowFacts(1).phone = RowFacts(2).phone
  /\ Len(buckets.out) = 2
  /\ Len(buckets.invalid) = 0

----------------------------------------------------------------------------
(* C30 *)

\* s can be obtained from t by deleting elements, the order kept.
RECURSIVE IsSubsequenceFrom(_, _, _, _)
IsSubsequenceFrom(s, t, i, j) ==
  IF i > Len(s) THEN TRUE
  ELSE IF j > Len(t) THEN FALSE
  ELSE IF s[i] = t[j] THEN IsSubsequenceFrom(s, t, i + 1, j + 1)
  ELSE IsSubsequenceFrom(s, t, i, j + 1)

\* The three buckets the memo computes from the current rows and settings
\* with an empty query.
EmptyQueryBuckets ==
  LET all == Classify(rows, countryCode, template, dedupeByPhone, autoDetectCountry)
  IN  [name \in {"out", "missing", "invalid"} |-> filterByQuery(all[name], <<>>)]

\* Row i would be shown under the current query if it were classified.
MatchesCurrentQuery(i) ==
  \/ ContainsIgnoringCase(RowFacts(i).record["Name"], Trim(search))
  \/ ContainsIgnoringCase(RowFacts(i).record["Current Role"], Trim(search))

\* C30: the search filter only hides records: each displayed bucket is an
\* order-preserving subsequence of the same bucket computed with an empty
\* query, and with dedup on, when the first row of a phone is hidden by the
\* query, no record with that phone is displayed as usable (a later row with
\* the same phone does not take its place).
C30_FilterOnlyHides ==
  /\ \A name \in {"out", "missing", "invalid"} :
       IsSubsequenceFrom(processed[name], EmptyQueryBuckets[name], 1, 1)
  /\ dedupeByPhone =>
       \A i \in KeptRows :
         (RowFacts(i).phone # <<>> /\ ~MatchesCurrentQuery(i)) =>
           \A r \in Elems(processed.out) : r.Phone # RowFacts(i).phone

\* Dedup is on, the first of two rows with one phone is hidden by the query,
\* the second one matches the query, and the usable bucket shows nothing.
C30_Witness ==
  /\ dedupeByPhone
  /\ Len(rows) = 2
  /\ RowFacts(1).phone # <<>>
  /\ RowFacts(1).phone = RowFacts(2).phone
  /\ ~MatchesCurrentQuery(1)
  /\ MatchesCurrentQuery(2)
  /\ Len(buckets.out) = 1
  /\ processed.out = <<>>

----------------------------------------------------------------------------
(* C22 *)

\* The messages of a load that failed upstream.
UpstreamFailureErrors ==
  {CsvParseErrors, ExcelReadErrors, UnsupportedTypeErrors, ImportFailedErrors}

\* C22: when a load fails upstream (unsupported file type, CSV parse error,
\* Excel read error, failed URL import) an error message is set and the row
\* set is empty afterwards, so that no bucket holds a record: in every state
\* that shows the message of an upstream failure, rows and the three buckets
\* are empty.
C22_FailedLoadLeavesNoRows ==
  errors \in UpstreamFailureErrors =>
    /\ rows = <<>>
    /\ buckets = EmptyBuckets
    /\ processed = EmptyBuckets

----------------------------------------------------------------------------
(* C27 *)

\* C27: in every reachable state the batch counter satisfies
\* 0 <= openIndex <= number of records in the displayed usable bucket.
C27_OpenIndexInRange ==
  0 <= openIndex /\ openIndex <= Len(processed.out)

----------------------------------------------------------------------------
(* C25, C26 *)

\* C25: once every pending timer and reader callback has fired, the rows
\* state holds the data of the most recently requested action, empty if that
\* action was Clear.
C25_LatestRequestWins == pending = <<>> => rows = requested

\* C26: every file selection that sets isLoading to true is eventually
\* followed by isLoading being false again, whatever the outcome of the load.
C26_LoadingEnds == isLoading ~> ~isLoading

----------------------------------------------------------------------------
(* C24 *)

\* C24: header canonicalization is idempotent: canonicalizing the stored
\* (already canonical) row again, under the same column mapping, yields a row
\* with the same keys and the same values.
C24_Idempotent ==
  fn.name = "recomputed" => Elems(fn.ret) = Elems(fn.row)

----------------------------------------------------------------------------
(* C28 *)

\* The step is one of fixTenDigitPhones: the rows are rewritten and no
\* setting changes.
FixStep ==
  /\ rows' = [i \in 1..Len(rows) |-> FixPhone(rows[i], countryCode)]
  /\ UNCHANGED <<countryCode, template, dedupeByPhone, autoDetectCountry, search>>

=============================================================================
